---------------------------- MODULE Spec2Model ----------------------------
(***************************************************************************)
(* Model of the analytics engine of argo-energy-solutions                  *)
(* (backend/python_scripts): the quick-wins synthesizer, the spike and     *)
(* anomaly detectors with their event grouping, the after-hours waste      *)
(* calculator, the sensor-health analyser, the site-level analysers, the   *)
(* configuration merge and the baseline period.                            *)
(*                                                                         *)
(* Every detector is a synchronous function of its arguments, so each      *)
(* specification below draws the arguments in Init and has one action per  *)
(* call, which stores the returned structure in a result variable.         *)
(*                                                                         *)
(* Numbers.  The code computes in binary floating point; the model         *)
(* computes the same formulas exactly, in fixed-point integers:            *)
(*   - a power is held in centi-kW (kW x 100), which is exact for the      *)
(*     linear-interpolation percentile of integer kW inputs at an integer  *)
(*     percentile;                                                         *)
(*   - an energy is held in centi-kW-seconds (kWh x 360000), so            *)
(*     power x interval_hours is power x interval_seconds with no          *)
(*     division.                                                           *)
(* Floating-point rounding is therefore not modelled.                      *)
(***************************************************************************)
EXTENDS Integers, Sequences, FiniteSets, TLC

VARIABLES
    analytics,      \* generate_quick_wins: the `analytics` argument
    qwConfig,       \* generate_quick_wins: the `config` argument
    quickWins,      \* generate_quick_wins: <<>> before the call, <<list>> after
    flagged,        \* group_consecutive_*: the list of flagged readings
    grpInterval,    \* group_consecutive_spikes: interval_seconds
    grpMinConsecutive,  \* group_consecutive_anomalies: min_consecutive
    spikeEvents,    \* group_consecutive_spikes: <<>> before, <<events>> after
    anomalyEvents,  \* group_consecutive_anomalies: <<>> before, <<events>> after
    detChannelData,   \* detect_*: [channelId, channelName, readings] (report period)
    detBaselineData,  \* detect_*: [channelId, readings] (baseline period)
    detConfig,         \* detect_*: the merged configuration
    detIntervalSeconds,   \* detect_*: the interval resolution
    detSiteChannelId,    \* analyze_spikes: <<>> for None, <<id>> otherwise
    detAnomalousReadings, \* detect_anomalies: its local list, <<list>> once built
    detAnomalyResult, \* detect_anomalies: <<>> before the call, <<result>> after
    detSpikes,         \* detect_spikes: its local list, <<list>> once built
    detSpikeResult,   \* detect_spikes: <<>> before the call, <<result>> after
    ahChannelsData,   \* analyze_after_hours_waste: channels_data
    ahBaselinesData,  \* analyze_after_hours_waste: baselines_data
    ahConfig,         \* analyze_after_hours_waste: config
    ahIntervalSeconds,  \* analyze_after_hours_waste: interval_seconds
    ahCalculated,     \* the `result` of each channel not skipped, <<list>>
    ahAnalysis,       \* analyze_after_hours_waste: <<>> before, <<result>> after
    siteChannelsData,   \* a site run: data['reportData']
    siteBaselinesData,  \* a site run: data['baselineData']
    siteConfig,         \* a site run: config
    siteIntervalSeconds,    \* a site run: data['resolution']
    siteTotalChannelId, \* analyze_spikes: site_channel_id, <<>> for None
    siteAfterHours,     \* after_hours_waste, <<>> before the call
    siteAnomalies,      \* anomalies, <<>> before the call
    siteSpikes,         \* spikes, <<>> before the call
    shChannelsData,     \* analyze_sensor_health_for_site: channels_data
    shConfig,           \* analyze_sensor_health_for_site: config
    shIntervalSeconds,  \* analyze_sensor_health_for_site: interval_seconds
    clock,              \* the wall clock, in seconds
    shFirst,            \* the first call: <<>> before, <<[now, outcome]>> after
    shSecond,           \* the second call: <<>> before, <<[now, outcome]>> after
    nullReadings,       \* a series with readings whose power is None
    nullProfile,        \* build_baseline_profile: <<>> before, <<profile>> after
    nullSpikeBaseline,  \* build_spike_baseline: <<>> before, <<baseline>> after
    nullFlatline,       \* the flatline check: <<>> before, <<result>> after
    mcUserConfig,       \* merge_config: user_config, <<>> for None
    mcConfig,           \* merge_config: <<>> before the call, <<config>> after
    bpReportStart,      \* get_baseline_period: report_start
    bpWeeksCount,       \* get_baseline_period: weeks_count
    bpPeriod            \* get_baseline_period: <<>> before, <<period>> after

qwVars == <<analytics, qwConfig, quickWins>>

grpVars == <<flagged, grpInterval, grpMinConsecutive, spikeEvents, anomalyEvents>>

detInputs ==
    <<detChannelData, detBaselineData, detConfig, detIntervalSeconds, detSiteChannelId>>

detVars ==
    <<detInputs, detAnomalousReadings, detAnomalyResult, detSpikes, detSpikeResult>>

ahInputs == <<ahChannelsData, ahBaselinesData, ahConfig, ahIntervalSeconds>>

ahVars == <<ahInputs, ahCalculated, ahAnalysis>>

siteInputs ==
    <<siteChannelsData, siteBaselinesData, siteConfig, siteIntervalSeconds,
      siteTotalChannelId>>

siteVars == <<siteInputs, siteAfterHours, siteAnomalies, siteSpikes>>

\* the variables of the components that run one function
unitVars == <<qwVars, grpVars, detVars, ahVars>>

shInputs == <<shChannelsData, shConfig, shIntervalSeconds>>

shVars == <<shInputs, clock, shFirst, shSecond>>

\* the variables of the site-level components
nullVars == <<nullReadings, nullProfile, nullSpikeBaseline, nullFlatline>>

mcVars == <<mcUserConfig, mcConfig>>

bpVars == <<bpReportStart, bpWeeksCount, bpPeriod>>

restVars == <<siteVars, shVars, nullVars, mcVars, bpVars>>

\* the variables outside one site-level component
notSiteVars == <<unitVars, shVars, nullVars, mcVars, bpVars>>

notShVars == <<unitVars, siteVars, nullVars, mcVars, bpVars>>

notNullVars == <<unitVars, siteVars, shVars, mcVars, bpVars>>

notMcVars == <<unitVars, siteVars, shVars, nullVars, bpVars>>

notBpVars == <<unitVars, siteVars, shVars, nullVars, mcVars>>

vars == <<unitVars, restVars>>

\* the value of a result variable before the call that sets it, and of
\* every variable of a component a specification does not run
Unset == <<>>

SiteIdle ==
    /\ siteChannelsData = Unset /\ siteBaselinesData = Unset
    /\ siteConfig = Unset /\ siteIntervalSeconds = Unset
    /\ siteTotalChannelId = Unset /\ siteAfterHours = Unset
    /\ siteAnomalies = Unset /\ siteSpikes = Unset

ShIdle ==
    /\ shChannelsData = Unset /\ shConfig = Unset /\ shIntervalSeconds = Unset
    /\ clock = Unset /\ shFirst = Unset /\ shSecond = Unset

NullIdle ==
    /\ nullReadings = Unset /\ nullProfile = Unset
    /\ nullSpikeBaseline = Unset /\ nullFlatline = Unset

McIdle == mcUserConfig = Unset /\ mcConfig = Unset

BpIdle == bpReportStart = Unset /\ bpWeeksCount = Unset /\ bpPeriod = Unset

RestIdle == SiteIdle /\ ShIdle /\ NullIdle /\ McIdle /\ BpIdle

QwIdle == analytics = Unset /\ qwConfig = Unset /\ quickWins = Unset

GrpIdle ==
    /\ flagged = Unset /\ grpInterval = Unset /\ grpMinConsecutive = Unset
    /\ spikeEvents = Unset /\ anomalyEvents = Unset

DetIdle ==
    /\ detChannelData = Unset /\ detBaselineData = Unset /\ detConfig = Unset
    /\ detIntervalSeconds = Unset /\ detSiteChannelId = Unset
    /\ detAnomalousReadings = Unset /\ detAnomalyResult = Unset
    /\ detSpikes = Unset /\ detSpikeResult = Unset

AhIdle ==
    /\ ahChannelsData = Unset /\ ahBaselinesData = Unset /\ ahConfig = Unset
    /\ ahIntervalSeconds = Unset /\ ahCalculated = Unset /\ ahAnalysis = Unset

UnitIdle == QwIdle /\ GrpIdle /\ DetIdle /\ AhIdle

NotSiteIdle == UnitIdle /\ ShIdle /\ NullIdle /\ McIdle /\ BpIdle

NotShIdle == UnitIdle /\ SiteIdle /\ NullIdle /\ McIdle /\ BpIdle

NotNullIdle == UnitIdle /\ SiteIdle /\ ShIdle /\ McIdle /\ BpIdle

NotMcIdle == UnitIdle /\ SiteIdle /\ ShIdle /\ NullIdle /\ BpIdle

NotBpIdle == UnitIdle /\ SiteIdle /\ ShIdle /\ NullIdle /\ McIdle

(***************************************************************************)
(* Generic helpers                                                         *)
(***************************************************************************)

Min2(a, b) == IF a <= b THEN a ELSE b

Max2(a, b) == IF a >= b THEN a ELSE b

RECURSIVE SumSeq(_)
SumSeq(s) == IF s = <<>> THEN 0 ELSE Head(s) + SumSeq(Tail(s))

\* Python's s[:n]: the first n items for n >= 0 (all of s when n > len(s));
\* for n < 0 the items before index len(s) + n (none when that is negative).
PySlicePrefix(s, n) ==
    IF n >= 0 THEN SubSeq(s, 1, Min2(n, Len(s)))
    ELSE SubSeq(s, 1, Max2(Len(s) + n, 0))

\* All sequences over S of length at most n.
SeqsUpTo(S, n) == UNION {[1..k -> S] : k \in 0..n}

(***************************************************************************)
(* Arguments after a call                                                  *)
(*                                                                         *)
(* The site-level analysers and the synthesizer work in place only on      *)
(* lists and dicts they create themselves: results.sort                    *)
(* (after_hours_waste.py:145, anomaly_detection.py:233,                    *)
(* spike_detection.py:217), all_issues.extend and all_issues.sort          *)
(* (sensor_health.py:157-161), timeline.sort, all_spikes.sort, wins.sort   *)
(* (quick_wins.py:220), and the append and del on the events built by the  *)
(* grouping routines.  What they read from an argument they read by        *)
(* indexing, iteration, slices and comprehensions.  So a list that was     *)
(* passed in holds after the call what it held before.                     *)
(***************************************************************************)

\* a list left in the opposite order, as an in-place sort would leave it
ListAfterCall_Reversed(list) ==
    [i \in 1..Len(list) |-> list[Len(list) + 1 - i]]

ListAfterCall(list) == list

\* channels_data or baselines_data, and each channel's readings
ChannelsAfterCall(channels_data) ==
    ListAfterCall([i \in 1..Len(channels_data) |->
        [channels_data[i] EXCEPT !.readings = ListAfterCall(@)]])

\* the analytics dictionary given to generate_quick_wins and the result
\* lists in it
AnalyticsAfterCall(a) ==
    [a EXCEPT !.afterHoursWaste.topMeters = ListAfterCall(@),
              !.sensorHealth.issues = ListAfterCall(@),
              !.anomalies.results = ListAfterCall(@),
              !.spikes.topSpikes = ListAfterCall(@)]

(***************************************************************************)
(* Quick-wins synthesizer: analyze/quick_wins.py                           *)
(*                                                                         *)
(* A win keeps the fields the ordering and the bound depend on: type,      *)
(* priority, impact.weeklyKwh, and the channel its title names (0 when it  *)
(* names none; channel names are numbers in the model).  The               *)
(* fixed texts (description, recommendations, owner, effort) and the cost  *)
(* fields, which nothing reads back, are left out.  kWh values are whole   *)
(* kWh.                                                                    *)
(***************************************************************************)

\* impact.weeklyKwh is a number or the sentinel string 'N/A'
Num(v) == <<"num", v>>
NA == <<"N/A">>

MaxMeters == 4          \* most channels in afterHoursWaste.topMeters
MaxIssues == 2          \* most issues in sensorHealth.issues
MaxCountBound == 3      \* largest quickWins.maxCount drawn

MeterKwhChoices == {5, 20, 150}
IssueChoices ==
    { [severity |-> "high",   type |-> "missing_data", channelName |-> 1],
      [severity |-> "high",   type |-> "stale_data",   channelName |-> 2],
      [severity |-> "medium", type |-> "flatline",     channelName |-> 1],
      [severity |-> "low",    type |-> "stale_data",   channelName |-> 2] }
EventKwhChoices == {10, 60}
SpikeKwhChoices == {3, 30}

\* quick_wins.py:213
PriorityRank(priority) ==
    CASE priority = "high" -> 0
      [] priority = "medium" -> 1
      [] priority = "low" -> 2
      [] OTHER -> 3

\* quick_wins.py:217: isinstance(weeklyKwh, (int, float)) else 0
ImpactKwh(win) ==
    IF win.weeklyKwh[1] = "num" THEN win.weeklyKwh[2] ELSE 0

\* a key that forgets the negation, so that impact sorts ascending
SortKey_AscendingImpact(win) == <<PriorityRank(win.priority), ImpactKwh(win)>>

\* quick_wins.py:215-218: sort_key(win) = (priority_rank, -impact_kwh)
SortKey(win) == <<PriorityRank(win.priority), 0 - ImpactKwh(win)>>

\* Python's tuple comparison a <= b on the two-element keys
KeyLeq(a, b) == a[1] < b[1] \/ (a[1] = b[1] /\ a[2] <= b[2])

\* quick_wins.py:220: wins.sort(key=sort_key).  list.sort is stable: an
\* item goes after every item already placed whose key is <= its own.
RECURSIVE SortWins(_)
SortWins(wins) ==
    IF wins = <<>> THEN <<>>
    ELSE LET front == SortWins(SubSeq(wins, 1, Len(wins) - 1))
             x == wins[Len(wins)]
             k == Cardinality({i \in 1..Len(front) :
                                  KeyLeq(SortKey(front[i]), SortKey(x))})
         IN  SubSeq(front, 1, k) \o <<x>> \o SubSeq(front, k + 1, Len(front))

\* quick_wins.py:25-54: one win per meter of topMeters[:3] whose excess
\* reaches quickWins.minWeeklyImpact
MeterWin(meter) ==
    [type |-> "after_hours_waste",
     priority |-> IF meter.excessKwh > 100 THEN "high" ELSE "medium",
     weeklyKwh |-> Num(meter.excessKwh),
     channelName |-> meter.channelName]

RECURSIVE MeterWins(_, _)
MeterWins(meters, minWeeklyImpact) ==
    IF meters = <<>> THEN <<>>
    ELSE (IF Head(meters).excessKwh >= minWeeklyImpact
          THEN <<MeterWin(Head(meters))>> ELSE <<>>)
         \o MeterWins(Tail(meters), minWeeklyImpact)

\* a loop over all of topMeters instead of its first three
AfterHoursWins_NoSlice(a, config) ==
    MeterWins(a.afterHoursWaste.topMeters, config.quickWins.minWeeklyImpact)

AfterHoursWins(a, config) ==
    IF a.afterHoursWaste.topMeters # <<>>
    THEN MeterWins(PySlicePrefix(a.afterHoursWaste.topMeters, 3),
                   config.quickWins.minWeeklyImpact)
    ELSE <<>>

IsHigh(issue) == issue.severity = "high"
IsFlatline(issue) == issue.type = "flatline"

\* quick_wins.py:56-85
SensorWins(a) ==
    IF a.sensorHealth.highSeverity > 0
    THEN LET high_issues == SelectSeq(a.sensorHealth.issues, IsHigh)
             affected_channels ==
                 {high_issues[i].channelName : i \in 1..Len(high_issues)}
         IN  IF Cardinality(affected_channels) > 0
             THEN <<[type |-> "sensor_health", priority |-> "high",
                     weeklyKwh |-> NA, channelName |-> 0]>>
             ELSE <<>>
    ELSE <<>>

\* quick_wins.py:87-119
AnomalyWins(a) ==
    IF a.anomalies.totalAnomalyEvents > 0 /\ Len(a.anomalies.results) > 0
    THEN LET top_anomaly == a.anomalies.results[1]
         IN  IF Len(top_anomaly.events) > 0
             THEN LET top_event == top_anomaly.events[1]
                  IN <<[type |-> "anomaly",
                        priority |-> IF top_event.totalExcessKwh > 50
                                     THEN "high" ELSE "medium",
                        weeklyKwh |-> Num(top_event.totalExcessKwh),
                        channelName |-> top_anomaly.channelName]>>
             ELSE <<>>
    ELSE <<>>

\* quick_wins.py:121-155
SpikeWins(a) ==
    IF Len(a.spikes.topSpikes) > 0
    THEN LET top_spike == a.spikes.topSpikes[1]
         IN <<[type |-> "spike", priority |-> "medium",
               weeklyKwh |-> Num(top_spike.totalExcessKwh),
               channelName |-> top_spike.channelName]>>
    ELSE <<>>

\* quick_wins.py:157-182
FlatlineWins(a) ==
    IF Len(SelectSeq(a.sensorHealth.issues, IsFlatline)) > 0
    THEN <<[type |-> "sensor_health", priority |-> "low",
            weeklyKwh |-> NA, channelName |-> 0]>>
    ELSE <<>>

\* quick_wins.py:184-210
SummaryWins(a) ==
    IF a.afterHoursWaste.summary.totalExcessKwh > 0
    THEN <<[type |-> "summary", priority |-> "high",
            weeklyKwh |-> Num(a.afterHoursWaste.summary.totalExcessKwh),
            channelName |-> 0]>>
    ELSE <<>>

\* quick_wins.py:23-210: the wins in the order they are appended
CollectWins(a, config) ==
    AfterHoursWins(a, config) \o SensorWins(a) \o AnomalyWins(a)
        \o SpikeWins(a) \o FlatlineWins(a) \o SummaryWins(a)

\* a slice that keeps one win too many
TruncateWins_OneTooMany(wins, maxCount) == PySlicePrefix(wins, maxCount + 1)

\* quick_wins.py:223: wins[:config['quickWins']['maxCount']]
TruncateWins(wins, maxCount) == PySlicePrefix(wins, maxCount)

\* quick_wins.py:12-223
generate_quick_wins(a, config) ==
    TruncateWins(SortWins(CollectWins(a, config)), config.quickWins.maxCount)

(* The arguments drawn for generate_quick_wins.  Detector outputs have the *)
(* shape the site-level analysers give them: topMeters sorted by           *)
(* descending excess with summary.totalExcessKwh their sum, issues sorted  *)
(* by severity with highSeverity the number of high ones.                  *)

SeverityRank(severity) ==
    CASE severity = "high" -> 0
      [] severity = "medium" -> 1
      [] OTHER -> 2

MeterLists ==
    {s \in SeqsUpTo(MeterKwhChoices, MaxMeters) :
        \A i \in 1..(Len(s) - 1) : s[i] >= s[i + 1]}

MkMeters(kwhs) ==
    [i \in 1..Len(kwhs) |-> [channelName |-> i, excessKwh |-> kwhs[i]]]

IssueLists ==
    {s \in SeqsUpTo(IssueChoices, MaxIssues) :
        \A i \in 1..(Len(s) - 1) :
            SeverityRank(s[i].severity) <= SeverityRank(s[i + 1].severity)}

MkAfterHoursWaste(kwhs) ==
    [topMeters |-> MkMeters(kwhs),
     summary |-> [totalExcessKwh |-> SumSeq(kwhs)]]

MkSensorHealth(issues) ==
    [issues |-> issues,
     highSeverity |-> Len(SelectSeq(issues, IsHigh))]

\* results are sorted by descending total excess of their events; the
\* events of a result are in time order
AnomalyOutputs ==
    {[totalAnomalyEvents |-> 0, results |-> <<>>]} \cup
    {[totalAnomalyEvents |-> 1,
      results |-> <<[channelName |-> 1, anomalyCount |-> 1,
                     events |-> <<[totalExcessKwh |-> k]>>]>>]
        : k \in EventKwhChoices} \cup
    {[totalAnomalyEvents |-> 3,
      results |-> <<[channelName |-> 1, anomalyCount |-> 2,
                     events |-> <<[totalExcessKwh |-> 10],
                                  [totalExcessKwh |-> 60]>>],
                    [channelName |-> 2, anomalyCount |-> 1,
                     events |-> <<[totalExcessKwh |-> 60]>>]>>]}

SpikeOutputs ==
    {[topSpikes |-> <<>>]} \cup
    {[topSpikes |-> <<[channelName |-> 2, totalExcessKwh |-> k]>>]
        : k \in SpikeKwhChoices} \cup
    {[topSpikes |-> <<[channelName |-> 2, totalExcessKwh |-> 3],
                      [channelName |-> 1, totalExcessKwh |-> 30]>>]}

\* quickWins.maxCount is a count ("Maximum number of recommendations",
\* report_config.py:72): the configurations drawn hold 0..MaxCountBound.
QwConfigs ==
    {[quickWins |-> [maxCount |-> m, minWeeklyImpact |-> w]]
        : m \in 0..MaxCountBound, w \in {10, 100}}

QwInit ==
    /\ analytics \in
         {[afterHoursWaste |-> MkAfterHoursWaste(k),
           sensorHealth |-> MkSensorHealth(i),
           anomalies |-> an,
           spikes |-> sp]
            : k \in MeterLists, i \in IssueLists,
              an \in AnomalyOutputs, sp \in SpikeOutputs}
    /\ qwConfig \in QwConfigs
    /\ quickWins = Unset
    /\ GrpIdle /\ DetIdle /\ AhIdle /\ RestIdle

\* the call quick_wins = generate_quick_wins(analytics_dict, config)
GenerateQuickWins ==
    /\ quickWins = Unset
    /\ quickWins' = <<generate_quick_wins(analytics, qwConfig)>>
    /\ analytics' = AnalyticsAfterCall(analytics)
    /\ UNCHANGED <<qwConfig, grpVars, detVars, ahVars, restVars>>

QwNext == GenerateQuickWins

SpecQuickWins == QwInit /\ [][QwNext]_vars

(***************************************************************************)
(* Calendar kernel: lib/date_utils.py, config/report_config.py             *)
(*                                                                         *)
(* A timestamp is a number of seconds since 1970-01-01 00:00 (a Thursday)  *)
(* on the clock of the reading's own zone, which is what weekday() and     *)
(* hour of the parsed datetime read.                                       *)
(***************************************************************************)

\* date_utils.py:105-122: an epoch number parses to that instant
parse_timestamp(ts) == ts

\* datetime.weekday(): 0 = Monday .. 6 = Sunday
Weekday(date) == ((date \div 86400) + 3) % 7

\* datetime.hour
Hour(date) == (date \div 3600) % 24

\* date_utils.py:125-138
get_hour_of_week(date) == Weekday(date) * 24 + Hour(date)

\* report_config.py:18-26: businessHours, Monday first; <<>> is None
DefaultBusinessHours ==
    [d \in 0..6 |-> IF d <= 4 THEN <<[start |-> 7, end |-> 18]>> ELSE <<>>]

\* report_config.py:117-139
is_business_hours(date, config) ==
    LET hours == config.businessHours[Weekday(date)]
    IN  IF hours = <<>> THEN FALSE
        ELSE hours[1].start <= Hour(date) /\ Hour(date) < hours[1].end

\* 00:00 of Monday 1970-01-12, the start of the report week drawn
ReportStart == 11 * 86400

(***************************************************************************)
(* Event grouping: analytics/spike_detection.py:49-108 and                 *)
(* analyze/anomaly_detection.py:58-124                                     *)
(*                                                                         *)
(* `current_event` is <<>> for None and <<event>> otherwise.  The duration *)
(* text f"{n} intervals" is the pair <<n, "intervals">>.                   *)
(***************************************************************************)

\* a new event that does not take the excess of its first reading
NewSpikeEvent_NoExcess(spike) ==
    [start |-> spike.ts, end |-> spike.ts, peakPower |-> spike.power,
     totalExcessKwh |-> 0, intervals |-> 1]

\* spike_detection.py:68-74 and 93-99
NewSpikeEvent(spike) ==
    [start |-> spike.ts, end |-> spike.ts, peakPower |-> spike.power,
     totalExcessKwh |-> spike.excessKwh, intervals |-> 1]

\* a merge that overwrites the peak instead of taking the maximum
MergeSpike_LastPower(ev, spike) ==
    [ev EXCEPT !.end = spike.ts,
               !.peakPower = spike.power,
               !.totalExcessKwh = @ + spike.excessKwh,
               !.intervals = @ + 1]

\* a merge that leaves the end of the event where it was
MergeSpike_KeepEnd(ev, spike) ==
    [ev EXCEPT !.peakPower = Max2(@, spike.power),
               !.totalExcessKwh = @ + spike.excessKwh,
               !.intervals = @ + 1]

\* spike_detection.py:82-85
MergeSpike(ev, spike) ==
    [ev EXCEPT !.end = spike.ts,
               !.peakPower = Max2(@, spike.power),
               !.totalExcessKwh = @ + spike.excessKwh,
               !.intervals = @ + 1]

\* a tolerance of one interval instead of two
SpikeGapMerges_OneInterval(gap, interval_seconds) == gap <= interval_seconds

\* spike_detection.py:81: if gap <= interval_seconds * 2
SpikeGapMerges(gap, interval_seconds) == gap <= interval_seconds * 2

\* spike_detection.py:88-91 and 103-106: {**current_event, 'duration': ...}
CloseSpikeEvent(ev) ==
    [start |-> ev.start, end |-> ev.end, peakPower |-> ev.peakPower,
     totalExcessKwh |-> ev.totalExcessKwh, intervals |-> ev.intervals,
     duration |-> <<ev.intervals, "intervals">>]

\* spike_detection.py:66-106: the loop from the i-th spike on, then the
\* save of the last event
RECURSIVE SpikeLoop(_, _, _, _, _)
SpikeLoop(spikes, i, events, current_event, interval_seconds) ==
    IF i > Len(spikes)
    THEN IF current_event # <<>>
         THEN Append(events, CloseSpikeEvent(current_event[1]))
         ELSE events
    ELSE LET spike == spikes[i]
         IN  IF current_event = <<>>
             THEN SpikeLoop(spikes, i + 1, events,
                            <<NewSpikeEvent(spike)>>, interval_seconds)
             ELSE LET prev_time == parse_timestamp(current_event[1].end)
                      curr_time == parse_timestamp(spike.ts)
                      gap == curr_time - prev_time
                  IN  IF SpikeGapMerges(gap, interval_seconds)
                      THEN SpikeLoop(spikes, i + 1, events,
                                     <<MergeSpike(current_event[1], spike)>>,
                                     interval_seconds)
                      ELSE SpikeLoop(spikes, i + 1,
                                     Append(events,
                                            CloseSpikeEvent(current_event[1])),
                                     <<NewSpikeEvent(spike)>>, interval_seconds)

\* spike_detection.py:49-108
group_consecutive_spikes(spikes, interval_seconds) ==
    IF Len(spikes) = 0 THEN <<>>
    ELSE SpikeLoop(spikes, 1, <<>>, <<>>, interval_seconds)

\* anomaly_detection.py:78-85 and 108-114 (the first event's initial
\* avgExcessKw is overwritten before any event is returned)
NewAnomalyEvent(reading) ==
    [start |-> reading.ts, end |-> reading.ts, readings |-> <<reading>>,
     peakPower |-> reading.power, totalExcessKwh |-> reading.excessKwh]

\* anomaly_detection.py:94-97
MergeAnomaly(ev, reading) ==
    [ev EXCEPT !.end = reading.ts,
               !.readings = Append(@, reading),
               !.peakPower = Max2(@, reading.power),
               !.totalExcessKwh = @ + reading.excessKwh]

\* a tolerance that takes in a gap of exactly two hours
AnomalyGapMerges_Inclusive(gap) == gap <= 7200

\* anomaly_detection.py:92: if gap < 7200
AnomalyGapMerges(gap) == gap < 7200

\* anomaly_detection.py:101-105 and 118-121.  avgExcessKw is
\* totalExcessKwh / (len(readings) * 0.25), held as the fraction
\* (4 * totalExcessKwh) / len(readings); 'readings' is deleted.
CloseAnomalyEvent(ev) ==
    [start |-> ev.start, end |-> ev.end, peakPower |-> ev.peakPower,
     totalExcessKwh |-> ev.totalExcessKwh,
     avgExcessKw |-> [num |-> 4 * ev.totalExcessKwh, den |-> Len(ev.readings)],
     duration |-> <<Len(ev.readings), "intervals">>,
     context |-> IF ev.readings[1].isBusinessHours
                 THEN "business_hours" ELSE "after_hours"]

\* a save that does not look at the number of readings
SaveAnomalyEvent_Always(events, ev, min_consecutive) ==
    Append(events, CloseAnomalyEvent(ev))

\* anomaly_detection.py:100-106 and 117-122: an event is saved only with
\* at least min_consecutive readings
SaveAnomalyEvent(events, ev, min_consecutive) ==
    IF Len(ev.readings) >= min_consecutive
    THEN Append(events, CloseAnomalyEvent(ev))
    ELSE events

\* anomaly_detection.py:75-122
RECURSIVE AnomalyLoop(_, _, _, _, _)
AnomalyLoop(readings, i, events, current_event, min_consecutive) ==
    IF i > Len(readings)
    THEN IF current_event # <<>>
         THEN SaveAnomalyEvent(events, current_event[1], min_consecutive)
         ELSE events
    ELSE LET reading == readings[i]
         IN  IF current_event = <<>>
             THEN AnomalyLoop(readings, i + 1, events,
                              <<NewAnomalyEvent(reading)>>, min_consecutive)
             ELSE LET prev_time == parse_timestamp(current_event[1].end)
                      curr_time == parse_timestamp(reading.ts)
                      gap == curr_time - prev_time
                  IN  IF AnomalyGapMerges(gap)
                      THEN AnomalyLoop(readings, i + 1, events,
                                       <<MergeAnomaly(current_event[1], reading)>>,
                                       min_consecutive)
                      ELSE AnomalyLoop(readings, i + 1,
                                       SaveAnomalyEvent(events, current_event[1],
                                                        min_consecutive),
                                       <<NewAnomalyEvent(reading)>>,
                                       min_consecutive)

\* anomaly_detection.py:58-124
group_consecutive_anomalies(readings, min_consecutive) ==
    IF Len(readings) = 0 THEN <<>>
    ELSE AnomalyLoop(readings, 1, <<>>, <<>>, min_consecutive)

(* The flagged readings drawn for the grouping functions: up to MaxFlagged *)
(* readings in time order, the first at 06:00 of the report week's Monday, *)
(* each next one a gap from GapChoices later.                              *)

MaxFlagged == 3

GapChoices == {0, 600, 1800, 2400, 3600, 6300, 7200}

\* (power, excessKw, excessKwh) of a flagged reading, in opaque units
FlaggedChoices ==
    { [power |-> 6, excessKw |-> 1, excessKwh |-> 2],
      [power |-> 9, excessKw |-> 4, excessKwh |-> 8] }

IntervalChoices == {900, 1800}

RECURSIVE TimesFromGaps(_, _)
TimesFromGaps(first, gaps) ==
    IF gaps = <<>> THEN <<first>>
    ELSE <<first>> \o TimesFromGaps(first + Head(gaps), Tail(gaps))

\* spike_detection.py:155-162 / anomaly_detection.py:171-180: the fields
\* of a flagged reading that the grouping reads
MkFlagged(times, values) ==
    [i \in 1..Len(values) |->
        [ts |-> times[i], power |-> values[i].power,
         excessKw |-> values[i].excessKw, excessKwh |-> values[i].excessKwh,
         isBusinessHours |-> is_business_hours(times[i],
                                [businessHours |-> DefaultBusinessHours])]]

FirstFlagged == ReportStart + 6 * 3600

FlaggedLists ==
    {<<>>} \cup
    UNION { {MkFlagged(TimesFromGaps(FirstFlagged, g), v) :
                g \in [1..(n - 1) -> GapChoices],
                v \in [1..n -> FlaggedChoices]} : n \in 1..MaxFlagged }

GrpInit ==
    /\ flagged \in FlaggedLists
    /\ grpInterval \in IntervalChoices
    /\ grpMinConsecutive \in 1..MaxFlagged
    /\ spikeEvents = Unset
    /\ anomalyEvents = Unset
    /\ QwIdle /\ DetIdle /\ AhIdle /\ RestIdle

\* the call events = group_consecutive_spikes(spikes, interval_seconds)
GroupSpikes ==
    /\ spikeEvents = Unset
    /\ spikeEvents' = <<group_consecutive_spikes(flagged, grpInterval)>>
    /\ UNCHANGED <<flagged, grpInterval, grpMinConsecutive, anomalyEvents,
                   qwVars, detVars, ahVars, restVars>>

\* the call events = group_consecutive_anomalies(anomalous_readings, min)
GroupAnomalies ==
    /\ anomalyEvents = Unset
    /\ anomalyEvents' = <<group_consecutive_anomalies(flagged, grpMinConsecutive)>>
    /\ UNCHANGED <<flagged, grpInterval, grpMinConsecutive, spikeEvents,
                   qwVars, detVars, ahVars, restVars>>

GrpNext == GroupSpikes \/ GroupAnomalies

SpecGrouping == GrpInit /\ [][GrpNext]_vars

(***************************************************************************)
(* Statistics kernel: lib/stats_utils.py                                   *)
(*                                                                         *)
(* Inputs are whole kW.  A percentile (and the median, q1, q3, iqr) is     *)
(* returned in centi-kW.  The mean is the fraction num/den; the standard   *)
(* deviation is sqrt(sq)/den, held by its radicand.                        *)
(***************************************************************************)

\* sorted(values), ascending
RECURSIVE SortAsc(_)
SortAsc(values) ==
    IF values = <<>> THEN <<>>
    ELSE LET front == SortAsc(SubSeq(values, 1, Len(values) - 1))
             x == values[Len(values)]
             k == Cardinality({i \in 1..Len(front) : front[i] <= x})
         IN  SubSeq(front, 1, k) \o <<x>> \o SubSeq(front, k + 1, Len(front))

\* np.percentile(values, p), linear interpolation: with a = sorted(values)
\* and rank = p/100 * (n-1), a[floor(rank)] + frac(rank) * (next - that).
NpPercentile(values, p) ==
    LET a == SortAsc(values)
        n == Len(a)
        lo == (p * (n - 1)) \div 100
        frac == (p * (n - 1)) % 100
        hi == Min2(lo + 1, n - 1)
    IN  a[lo + 1] * 100 + frac * (a[hi + 1] - a[lo + 1])

\* stats_utils.py:47-61
percentile(values, p) ==
    IF Len(values) = 0 THEN 0 ELSE NpPercentile(values, p)

RECURSIVE SumSquares(_)
SumSquares(s) ==
    IF s = <<>> THEN 0 ELSE Head(s) * Head(s) + SumSquares(Tail(s))

\* stats_utils.py:13-44
calculate_stats(values) ==
    IF Len(values) = 0
    THEN [count |-> 0, sum |-> 0, mean |-> [num |-> 0, den |-> 1],
          min |-> 0, max |-> 0, median |-> 0, std |-> [sq |-> 0, den |-> 1]]
    ELSE LET a == SortAsc(values)
             n == Len(values)
         IN  [count |-> n,
              sum |-> SumSeq(values),
              mean |-> [num |-> SumSeq(values), den |-> n],
              min |-> a[1],
              max |-> a[n],
              median |-> NpPercentile(values, 50),
              std |-> [sq |-> n * SumSquares(values)
                                - SumSeq(values) * SumSeq(values),
                       den |-> n]]

\* stats_utils.py:64-84
calculate_iqr(values) ==
    IF Len(values) = 0 THEN [q1 |-> 0, q3 |-> 0, iqr |-> 0]
    ELSE LET q1 == percentile(values, 25)
             q3 == percentile(values, 75)
         IN  [q1 |-> q1, q3 |-> q3, iqr |-> q3 - q1]

\* stats_utils.py:87-101: (value - mean) / std is
\* (value * n - sum) / sqrt(std.sq), held as that numerator and radicand
z_score(value, mean, std) ==
    IF std.sq = 0 THEN [num |-> 0, radicand |-> 1]
    ELSE [num |-> value * mean.den - mean.num, radicand |-> std.sq]

\* stats_utils.py:119-136: the keys of group_by(array, key_fn)
GroupKeys(array, key_fn(_)) == {key_fn(array[i]) : i \in 1..Len(array)}

(***************************************************************************)
(* Readings and baseline profiles                                          *)
(*                                                                         *)
(* A reading is [ts, P]: the rows fetched by generate_weekly_report.py     *)
(* (lines 113-126) carry the power under 'P' and no 'power_kw' key.  P is  *)
(* <<>> for None and <<kW>> otherwise.                                     *)
(***************************************************************************)

\* r.get('P') or r.get('power_kw', 0): a None or zero P falls through to
\* the default 0 of the absent 'power_kw'
PowerOf(r) == IF r.P = <<>> \/ r.P[1] = 0 THEN 0 ELSE r.P[1]

HourKey(r) == get_hour_of_week(parse_timestamp(r.ts))

\* the powers of the readings of one hour-of-week bucket, in reading order.
\* The filter of None and NaN that follows (anomaly_detection.py:43,
\* spike_detection.py:37) removes nothing: PowerOf never yields None.
RECURSIVE BucketPowers(_, _)
BucketPowers(readings, h) ==
    IF readings = <<>> THEN <<>>
    ELSE (IF HourKey(Head(readings)) = h
          THEN <<PowerOf(Head(readings))>> ELSE <<>>)
         \o BucketPowers(Tail(readings), h)

\* spike_detection.py:40-44: the percentile is the literal 95
SpikeBucket(powers) ==
    [p95 |-> percentile(powers, 95),
     p50 |-> percentile(powers, 50),
     count |-> Len(powers)]

\* spike_detection.py:14-46
build_spike_baseline(baseline_readings) ==
    [h \in GroupKeys(baseline_readings, HourKey) |->
        SpikeBucket(BucketPowers(baseline_readings, h))]

\* anomaly_detection.py:52
UpperThreshold(iqr, iqrMultiplier) == iqr.q3 + iqrMultiplier * iqr.iqr

\* anomaly_detection.py:46-53: {**stats, **iqr, 'upperThreshold': ...}
AnomalyBucket(powers, config) ==
    LET stats == calculate_stats(powers)
        iqr == calculate_iqr(powers)
    IN  [count |-> stats.count, sum |-> stats.sum, mean |-> stats.mean,
         min |-> stats.min, max |-> stats.max, median |-> stats.median,
         std |-> stats.std, q1 |-> iqr.q1, q3 |-> iqr.q3, iqr |-> iqr.iqr,
         upperThreshold |-> UpperThreshold(iqr, config.anomaly.iqrMultiplier)]

\* anomaly_detection.py:18-55
build_baseline_profile(baseline_readings, config) ==
    [h \in GroupKeys(baseline_readings, HourKey) |->
        AnomalyBucket(BucketPowers(baseline_readings, h), config)]

\* a lookup that answers an all-zero entry for an hour without baseline
ProfileGet_ZeroDefault(profile, h) ==
    IF h \in DOMAIN profile THEN <<profile[h]>>
    ELSE <<[p95 |-> 0, p50 |-> 0, count |-> 0, median |-> 0,
            mean |-> [num |-> 0, den |-> 1], std |-> [sq |-> 0, den |-> 1],
            upperThreshold |-> 0]>>

\* baseline.get(hour_of_week): <<>> is None
ProfileGet(profile, h) ==
    IF h \in DOMAIN profile THEN <<profile[h]>> ELSE <<>>

\* date_utils.py:158-168: resolution / 3600.  Energies are held in
\* centi-kW-seconds, so a centi-kW power times interval_hours is the power
\* times the resolution in seconds.
get_interval_hours(resolution) == resolution

(***************************************************************************)
(* Spike detector: analytics/spike_detection.py:111-175                    *)
(*                                                                         *)
(* spike.multiplier is the fraction num/den (1.5 is 3/2).  A threshold is  *)
(* held in units of 1/(100 * den) kW.                                      *)
(***************************************************************************)

\* a floor chosen the wrong way round
AbsoluteFloor_Swapped(spike_config, is_site_total) ==
    IF is_site_total THEN spike_config.submeterMinKw ELSE spike_config.siteMinKw

\* spike_detection.py:132
AbsoluteFloor(spike_config, is_site_total) ==
    IF is_site_total THEN spike_config.siteMinKw ELSE spike_config.submeterMinKw

\* spike_detection.py:152: max(baseline_stats['p95'] * multiplier, min_absolute_kw)
SpikeThreshold(p95, multiplier, min_absolute_kw) ==
    Max2(p95 * multiplier.num, min_absolute_kw * 100 * multiplier.den)

\* spike_detection.py:154
IsSpike(power, threshold, multiplier, min_absolute_kw) ==
    power * 100 * multiplier.den > threshold /\ power > min_absolute_kw

\* spike_detection.py:155-162
SpikeReading(reading, power, baseline_stats, threshold, multiplier, interval_hours) ==
    [ts |-> reading.ts,
     power |-> power,
     baselineP95 |-> baseline_stats.p95,
     threshold |-> [num |-> threshold, den |-> 100 * multiplier.den],
     excessKw |-> power * 100 - baseline_stats.p95,
     excessKwh |-> (power * 100 - baseline_stats.p95) * interval_hours]

\* spike_detection.py:141-162: the loop over channel_data['readings']
RECURSIVE FindSpikes(_, _, _, _, _)
FindSpikes(readings, baseline, spike_config, min_absolute_kw, interval_hours) ==
    IF readings = <<>> THEN <<>>
    ELSE LET reading == Head(readings)
             rest == FindSpikes(Tail(readings), baseline, spike_config,
                                min_absolute_kw, interval_hours)
             hour_of_week == get_hour_of_week(parse_timestamp(reading.ts))
             baseline_stats == ProfileGet(baseline, hour_of_week)
         IN  IF baseline_stats = <<>> THEN rest
             ELSE LET power == PowerOf(reading)
                      threshold == SpikeThreshold(baseline_stats[1].p95,
                                                  spike_config.multiplier,
                                                  min_absolute_kw)
                  IN  IF IsSpike(power, threshold, spike_config.multiplier,
                                 min_absolute_kw)
                      THEN <<SpikeReading(reading, power, baseline_stats[1],
                                          threshold, spike_config.multiplier,
                                          interval_hours)>> \o rest
                      ELSE rest

\* spike_detection.py:131-162: the list `spikes` of detect_spikes
SpikesOf(channel, baseline_d, cfg, interval, is_site_total) ==
    FindSpikes(channel.readings,
               build_spike_baseline(baseline_d.readings),
               cfg.spike,
               AbsoluteFloor(cfg.spike, is_site_total),
               get_interval_hours(interval))

\* spike_detection.py:164-175
SpikeReturn(channel, flagged_spikes, cfg, interval) ==
    LET events == group_consecutive_spikes(flagged_spikes, interval)
        min_duration == cfg.spike.minDuration
        significant_events ==
            SelectSeq(events, LAMBDA e : e.intervals >= min_duration)
    IN  [channelId |-> channel.channelId,
         channelName |-> channel.channelName,
         spikeCount |-> Len(significant_events),
         events |-> significant_events]

\* spike_detection.py:111-175
detect_spikes(channel, baseline_d, cfg, interval, is_site_total) ==
    SpikeReturn(channel,
                SpikesOf(channel, baseline_d, cfg, interval, is_site_total),
                cfg, interval)

(***************************************************************************)
(* Anomaly detector: analyze/anomaly_detection.py:127-193                  *)
(***************************************************************************)

\* a comparison that also flags a reading equal to the threshold
ExceedsThreshold_Inclusive(power, upperThreshold) == power * 100 >= upperThreshold

\* anomaly_detection.py:167: power > baseline['upperThreshold']
ExceedsThreshold(power, upperThreshold) == power * 100 > upperThreshold

\* anomaly_detection.py:168-180
AnomalousReading(reading, power, baseline, cfg, interval_hours) ==
    [ts |-> reading.ts,
     power |-> power,
     baselineMedian |-> baseline.median,
     threshold |-> baseline.upperThreshold,
     excessKw |-> power * 100 - baseline.median,
     excessKwh |-> (power * 100 - baseline.median) * interval_hours,
     zScore |-> z_score(power, baseline.mean, baseline.std),
     isBusinessHours |->
         is_business_hours(parse_timestamp(reading.ts), cfg)]

\* anomaly_detection.py:154-180: the loop over channel_data['readings']
RECURSIVE FindAnomalous(_, _, _, _)
FindAnomalous(readings, baseline_profile, cfg, interval_hours) ==
    IF readings = <<>> THEN <<>>
    ELSE LET reading == Head(readings)
             rest == FindAnomalous(Tail(readings), baseline_profile, cfg,
                                   interval_hours)
             hour_of_week == get_hour_of_week(parse_timestamp(reading.ts))
             baseline == ProfileGet(baseline_profile, hour_of_week)
         IN  IF baseline = <<>> THEN rest
             ELSE LET power == PowerOf(reading)
                  IN  IF ExceedsThreshold(power, baseline[1].upperThreshold)
                      THEN <<AnomalousReading(reading, power, baseline[1],
                                              cfg, interval_hours)>> \o rest
                      ELSE rest

\* anomaly_detection.py:145-180: the list `anomalous_readings`
AnomalousOf(channel, baseline_d, cfg, interval) ==
    FindAnomalous(channel.readings,
                  build_baseline_profile(baseline_d.readings, cfg),
                  cfg,
                  get_interval_hours(interval))

\* anomaly_detection.py:182-193.  min_excess_kwh is in kWh; an event's
\* totalExcessKwh is in centi-kW-seconds (kWh x 360000).
AnomalyReturn(channel, flagged_readings, cfg) ==
    LET events == group_consecutive_anomalies(
                      flagged_readings, cfg.anomaly.minConsecutiveIntervals)
        min_excess_kwh == cfg.anomaly.minExcessKwh
        significant_events ==
            SelectSeq(events,
                      LAMBDA e : e.totalExcessKwh >= min_excess_kwh * 360000)
    IN  [channelId |-> channel.channelId,
         channelName |-> channel.channelName,
         anomalyCount |-> Len(significant_events),
         events |-> significant_events]

\* anomaly_detection.py:127-193
detect_anomalies(channel, baseline_d, cfg, interval) ==
    AnomalyReturn(channel, AnomalousOf(channel, baseline_d, cfg, interval), cfg)

(***************************************************************************)
(* The detectors on one channel.                                           *)
(*                                                                         *)
(* The report readings are up to MaxReport readings half an hour apart,    *)
(* the first at 06:30 of the report week's Monday: the first falls in      *)
(* hour-of-week 6, the following ones in hour-of-week 7.  The baseline     *)
(* readings are those of the Monday one week earlier: for each hour of a   *)
(* drawn set of hours, the same list of up to MaxBaseline powers.          *)
(***************************************************************************)

MaxReport == 2

MaxBaseline == 5

ReportPowerChoices == {<<10>>, <<15>>, <<25>>, <<45>>}

BaselinePowerChoices == {10, 20}

BaselineHourChoices == {<<6>>, <<6, 7>>}

FirstReport == ReportStart + 6 * 3600 + 1800

BaselineStart == ReportStart - 7 * 86400

ReportReadingLists ==
    UNION { {[i \in 1..n |-> [ts |-> FirstReport + (i - 1) * 1800, P |-> p[i]]] :
                p \in [1..n -> ReportPowerChoices]} : n \in 0..MaxReport }

\* the power lists of one baseline hour: k readings of one power followed
\* by n - k of the other
BaselinePowerLists ==
    UNION { {[i \in 1..n |-> IF i <= k THEN a ELSE b] :
                k \in 0..n, a \in BaselinePowerChoices,
                b \in BaselinePowerChoices} : n \in 1..MaxBaseline }

\* the readings of baseline hour h, spread evenly within the hour
BaselineHourReadings(h, powers) ==
    [j \in 1..Len(powers) |->
        [ts |-> BaselineStart + h * 3600
                + (j - 1) * (3600 \div (MaxBaseline + 1)),
         P |-> <<powers[j]>>]]

RECURSIVE BaselineReadings(_, _)
BaselineReadings(hours, powers) ==
    IF hours = <<>> THEN <<>>
    ELSE BaselineHourReadings(Head(hours), powers)
         \o BaselineReadings(Tail(hours), powers)

\* report_config.py:54-59, 62-68 and 18-26: DEFAULT_CONFIG
DefaultDetectConfig ==
    [anomaly |-> [iqrMultiplier |-> 3, zScoreThreshold |-> 3,
                  minConsecutiveIntervals |-> 3, minExcessKwh |-> 5],
     spike |-> [baselinePercentile |-> 95,
                multiplier |-> [num |-> 3, den |-> 2],
                submeterMinKw |-> 5, siteMinKw |-> 20, minDuration |-> 1],
     businessHours |-> DefaultBusinessHours]

\* a configuration merged from overrides of every detector setting
\* (report_config.py:91-114)
OverrideDetectConfig ==
    [anomaly |-> [iqrMultiplier |-> 1, zScoreThreshold |-> 3,
                  minConsecutiveIntervals |-> 1, minExcessKwh |-> 1],
     spike |-> [baselinePercentile |-> 50,
                multiplier |-> [num |-> 2, den |-> 1],
                submeterMinKw |-> 12, siteMinKw |-> 30, minDuration |-> 2],
     businessHours |-> DefaultBusinessHours]

DetectConfigs == {DefaultDetectConfig, OverrideDetectConfig}

\* (channelId, site_channel_id): the site total, a submeter beside a site
\* total, and a channel of a report without a designated site total
ChannelChoices == {<<1, <<1>>>>, <<2, <<1>>>>, <<1, <<>>>>}

DetInit ==
    /\ \E c \in ChannelChoices, r \in ReportReadingLists :
          /\ detChannelData =
                [channelId |-> c[1], channelName |-> c[1], readings |-> r]
          /\ detSiteChannelId = c[2]
          /\ \E h \in BaselineHourChoices, l \in BaselinePowerLists :
                detBaselineData =
                    [channelId |-> c[1], readings |-> BaselineReadings(h, l)]
    /\ detConfig \in DetectConfigs
    /\ detIntervalSeconds = 1800
    /\ detAnomalousReadings = Unset
    /\ detAnomalyResult = Unset
    /\ detSpikes = Unset
    /\ detSpikeResult = Unset
    /\ QwIdle /\ GrpIdle /\ AhIdle /\ RestIdle

\* anomaly_detection.py:225: result = detect_anomalies(...), called first
\* (generate_weekly_report.py:330)
DetectAnomalies ==
    /\ detAnomalyResult = Unset
    /\ LET found == AnomalousOf(detChannelData, detBaselineData, detConfig,
                                detIntervalSeconds)
       IN  /\ detAnomalousReadings' = <<found>>
           /\ detAnomalyResult' =
                 <<AnomalyReturn(detChannelData, found, detConfig)>>
    /\ UNCHANGED <<detInputs, detSpikes, detSpikeResult,
                   qwVars, grpVars, ahVars, restVars>>

\* spike_detection.py:210-211: is_site_total and result = detect_spikes(...),
\* called after the anomaly analysis (generate_weekly_report.py:339)
DetectSpikes ==
    /\ detAnomalyResult # Unset
    /\ detSpikeResult = Unset
    /\ LET is_site_total == <<detChannelData.channelId>> = detSiteChannelId
           found == SpikesOf(detChannelData, detBaselineData, detConfig,
                             detIntervalSeconds, is_site_total)
       IN  /\ detSpikes' = <<found>>
           /\ detSpikeResult' =
                 <<SpikeReturn(detChannelData, found, detConfig,
                               detIntervalSeconds)>>
    /\ UNCHANGED <<detInputs, detAnomalousReadings, detAnomalyResult,
                   qwVars, grpVars, ahVars, restVars>>

DetNext == DetectAnomalies \/ DetectSpikes

SpecDetect == DetInit /\ [][DetNext]_vars

(***************************************************************************)
(* After-hours waste: analyze/after_hours_waste.py                         *)
(*                                                                         *)
(* afterHours.minPowerThreshold and baseline_kw are in centi-kW (the       *)
(* default 0.1 kW is 10); energies are in centi-kW-seconds.  The values    *)
(* the code rounds for display are kept exact.  The cost and chart fields  *)
(* of the results, which depend on the tariff only, are left out.          *)
(***************************************************************************)

\* stats_utils.py:104-116
non_zero_percentile(values, p) ==
    percentile(SelectSeq(values, LAMBDA v : v > 0), p)

IsAfterHours(reading, config) ==
    ~is_business_hours(parse_timestamp(reading.ts), config)

\* after_hours_waste.py:40-45
BaselineAfterHoursPower(baseline_data, config) ==
    LET kept == SelectSeq(baseline_data,
                   LAMBDA reading :
                       /\ IsAfterHours(reading, config)
                       /\ PowerOf(reading) * 100
                              > config.afterHours.minPowerThreshold)
    IN  [i \in 1..Len(kept) |-> PowerOf(kept[i])]

\* after_hours_waste.py:50-57
ReportAfterHoursReadings(channel_data, config) ==
    LET kept == SelectSeq(channel_data.readings,
                          LAMBDA reading : IsAfterHours(reading, config))
    IN  [i \in 1..Len(kept) |-> [ts |-> kept[i].ts, power |-> PowerOf(kept[i])]]

\* an excess that is not clamped at zero
ExcessKw_Signed(power, baseline_kw) == power * 100 - baseline_kw

\* after_hours_waste.py:67: max(0, reading['power'] - baseline_kw)
ExcessKw(power, baseline_kw) == Max2(0, power * 100 - baseline_kw)

\* after_hours_waste.py:63-78: the loop, as the totals and the list it builds
RECURSIVE AfterHoursLoop(_, _, _, _, _)
AfterHoursLoop(readings, i, acc, baseline_kw, config_and_interval) ==
    IF i > Len(readings) THEN acc
    ELSE LET reading == readings[i]
             interval_hours == config_and_interval.interval_hours
             min_power_threshold == config_and_interval.min_power_threshold
             kwh == reading.power * 100 * interval_hours
             excess == ExcessKw(reading.power, baseline_kw)
             excess_kwh == excess * interval_hours
             entry == [ts |-> reading.ts, power |-> reading.power,
                       baselinePower |-> baseline_kw, excessKw |-> excess,
                       excessKwh |-> excess_kwh]
         IN  AfterHoursLoop(readings, i + 1,
                 [total_after_hours_kwh |-> acc.total_after_hours_kwh + kwh,
                  excess_after_hours_kwh |->
                      acc.excess_after_hours_kwh + excess_kwh,
                  excess_intervals |->
                      IF excess > min_power_threshold
                      THEN Append(acc.excess_intervals, entry)
                      ELSE acc.excess_intervals],
                 baseline_kw, config_and_interval)

\* after_hours_waste.py:105: excess_after_hours_kwh >= min_excess_kwh, with
\* min_excess_kwh in kWh and the excess in centi-kW-seconds
IsSignificant(excess_after_hours_kwh, min_excess_kwh) ==
    excess_after_hours_kwh >= min_excess_kwh * 360000

\* after_hours_waste.py:16-106
calculate_after_hours_waste(channel_data, baseline_data, config, interval_seconds) ==
    LET baseline_percentile == config.afterHours.baselinePercentile
        min_power_threshold == config.afterHours.minPowerThreshold
        min_excess_kwh == config.afterHours.minExcessKwh
        interval_hours == get_interval_hours(interval_seconds)
        baseline_kw ==
            non_zero_percentile(BaselineAfterHoursPower(baseline_data, config),
                                baseline_percentile)
        report_after_hours_readings ==
            ReportAfterHoursReadings(channel_data, config)
        sums == AfterHoursLoop(report_after_hours_readings, 1,
                    [total_after_hours_kwh |-> 0, excess_after_hours_kwh |-> 0,
                     excess_intervals |-> <<>>],
                    baseline_kw,
                    [interval_hours |-> interval_hours,
                     min_power_threshold |-> min_power_threshold])
        stats == calculate_stats(
                     [i \in 1..Len(report_after_hours_readings) |->
                         report_after_hours_readings[i].power])
    IN  [channelId |-> channel_data.channelId,
         channelName |-> channel_data.channelName,
         baseline |-> [kw |-> baseline_kw],
         thisWeek |-> [totalAfterHoursKwh |-> sums.total_after_hours_kwh,
                       excessAfterHoursKwh |-> sums.excess_after_hours_kwh,
                       avgPowerKw |-> stats.mean,
                       maxPowerKw |-> stats.max,
                       minPowerKw |-> stats.min,
                       intervals |-> Len(report_after_hours_readings)],
         impact |-> [excessKwh |-> sums.excess_after_hours_kwh],
         excessIntervals |-> PySlicePrefix(sums.excess_intervals, 10),
         isSignificant |->
             IsSignificant(sums.excess_after_hours_kwh, min_excess_kwh)]

\* a lookup that answers the first baseline series whatever its channel
FindBaseline_First(baselines_data, channelId) ==
    IF baselines_data = <<>> THEN <<>> ELSE <<baselines_data[1]>>

\* after_hours_waste.py:130-133: next(b for b in baselines_data if ...),
\* <<>> for None
FindBaseline(baselines_data, channelId) ==
    LET hits == SelectSeq(baselines_data, LAMBDA b : b.channelId = channelId)
    IN  IF hits = <<>> THEN <<>> ELSE <<hits[1]>>

\* after_hours_waste.py:135, anomaly_detection.py:222, spike_detection.py:206:
\* if not baseline_data or len(baseline_data.get('readings', [])) == 0
HasNoBaseline(baseline_data) ==
    baseline_data = <<>> \/ Len(baseline_data[1].readings) = 0

\* after_hours_waste.py:129-139: the `result` of every channel that is not
\* skipped for want of baseline readings, in channel order
RECURSIVE CalculatedResults(_, _, _, _)
CalculatedResults(channels_data, baselines_data, config, interval_seconds) ==
    IF channels_data = <<>> THEN <<>>
    ELSE LET channel_data == Head(channels_data)
             rest == CalculatedResults(Tail(channels_data), baselines_data,
                                       config, interval_seconds)
             baseline_data == FindBaseline(baselines_data, channel_data.channelId)
         IN  IF HasNoBaseline(baseline_data) THEN rest
             ELSE <<calculate_after_hours_waste(channel_data,
                        baseline_data[1].readings, config, interval_seconds)>>
                  \o rest

\* a list left in the order the channels were given
SortByExcessKwh_Unsorted(results) == results

\* after_hours_waste.py:145: results.sort(key=excessKwh, reverse=True), a
\* stable sort: results of equal excess keep their order
RECURSIVE SortByExcessKwh(_)
SortByExcessKwh(results) ==
    IF results = <<>> THEN <<>>
    ELSE LET front == SortByExcessKwh(SubSeq(results, 1, Len(results) - 1))
             x == results[Len(results)]
             k == Cardinality({i \in 1..Len(front) :
                      front[i].impact.excessKwh >= x.impact.excessKwh})
         IN  SubSeq(front, 1, k) \o <<x>> \o SubSeq(front, k + 1, Len(front))

\* after_hours_waste.py:141-159: the significant results, sorted, and what
\* is returned of them
AfterHoursReturn(calculated) ==
    LET results == SortByExcessKwh(
                       SelectSeq(calculated, LAMBDA r : r.isSignificant))
    IN  [topMeters |-> PySlicePrefix(results, 10),
         allMeters |-> results,
         summary |->
             [totalMetersWithExcess |-> Len(results),
              totalExcessKwh |->
                  SumSeq([i \in 1..Len(results) |-> results[i].impact.excessKwh])]]

\* after_hours_waste.py:109-171
analyze_after_hours_waste(channels_data, baselines_data, config, interval_seconds) ==
    AfterHoursReturn(CalculatedResults(channels_data, baselines_data, config,
                                       interval_seconds))

(* The channel analysed has up to MaxAhReport report readings and up to    *)
(* MaxAhBaseline baseline readings, half an hour apart from 17:30 of a     *)
(* Monday: the first in business hours, the others after hours.  It is     *)
(* analysed alone, or between a channel without baseline and a channel     *)
(* with a fixed excess.                                                    *)

MaxAhReport == 3

MaxAhBaseline == 3

AhReportPowerChoices == {<<>>, <<10>>, <<30>>}

AhBaselinePowerChoices == {<<>>, <<10>>, <<20>>}

AhReadings(first, powers) ==
    [i \in 1..Len(powers) |-> [ts |-> first + (i - 1) * 1800, P |-> powers[i]]]

AhFirstReport == ReportStart + 17 * 3600 + 1800

AhFirstBaseline == BaselineStart + 17 * 3600 + 1800

\* a channel with 25 kW of excess in each of two after-hours intervals
AhWaster ==
    [channel |-> [channelId |-> 2, channelName |-> 2,
                  readings |-> AhReadings(AhFirstReport,
                                          <<<<10>>, <<30>>, <<30>>>>)],
     baseline |-> [channelId |-> 2,
                   readings |-> AhReadings(AhFirstBaseline,
                                           <<<<5>>, <<5>>, <<5>>>>)]]

\* a channel that has no entry in baselines_data
AhUnbaselined ==
    [channelId |-> 3, channelName |-> 3,
     readings |-> AhReadings(AhFirstReport, <<<<30>>, <<30>>>>)]

\* report_config.py:18-26 and 47-51: DEFAULT_CONFIG
DefaultAfterHoursConfig ==
    [afterHours |-> [baselinePercentile |-> 5, minPowerThreshold |-> 10,
                     minExcessKwh |-> 10],
     businessHours |-> DefaultBusinessHours]

\* a configuration merged from overrides (report_config.py:91-114)
OverrideAfterHoursConfig ==
    [afterHours |-> [baselinePercentile |-> 50, minPowerThreshold |-> 10,
                     minExcessKwh |-> 0],
     businessHours |-> DefaultBusinessHours]

\* A site of many channels, to fill topMeters beyond its ten entries: the
\* i-th channel has three report readings, the two after hours of the
\* i-th power of a repeated cycle, and a baseline of three readings of
\* 5 kW; a power of 0 in the cycle stands for a channel whose baseline
\* series has no readings.
MaxAhChannels == 13

AhCycleChoices ==
    {<<30>>, <<30, 45>>, <<45, 30, 5>>, <<5, 30, 0, 45>>,
     <<30, 45, 30, 0, 45, 20, 5, 45, 30, 45, 20, 30, 45>>}

AhCyclePower(cycle, i) == cycle[((i - 1) % Len(cycle)) + 1]

AhCrowdChannel(i, p) ==
    [channelId |-> i, channelName |-> i,
     readings |-> AhReadings(AhFirstReport, <<<<10>>, <<p>>, <<p>>>>)]

AhCrowdBaseline(i, p) ==
    [channelId |-> i,
     readings |-> IF p = 0 THEN <<>>
                  ELSE AhReadings(AhFirstBaseline, <<<<5>>, <<5>>, <<5>>>>)]

AhCrowd ==
    \E n \in 0..MaxAhChannels, cycle \in AhCycleChoices :
        /\ ahChannelsData =
              [i \in 1..n |-> AhCrowdChannel(i, AhCyclePower(cycle, i))]
        /\ ahBaselinesData =
              [i \in 1..n |-> AhCrowdBaseline(i, AhCyclePower(cycle, i))]

AhInit ==
    /\ \/ \E r \in UNION {[1..n -> AhReportPowerChoices] : n \in 0..MaxAhReport},
             b \in UNION {[1..n -> AhBaselinePowerChoices] : n \in 0..MaxAhBaseline},
             alone \in BOOLEAN :
             LET channel == [channelId |-> 1, channelName |-> 1,
                             readings |-> AhReadings(AhFirstReport, r)]
                 baseline == [channelId |-> 1,
                              readings |-> AhReadings(AhFirstBaseline, b)]
             IN  /\ ahChannelsData =
                       IF alone THEN <<channel>>
                       ELSE <<AhUnbaselined, channel, AhWaster.channel>>
                 /\ ahBaselinesData =
                       IF alone THEN <<baseline>>
                       ELSE <<AhWaster.baseline, baseline>>
       \/ AhCrowd
    /\ ahConfig \in {DefaultAfterHoursConfig, OverrideAfterHoursConfig}
    /\ ahIntervalSeconds = 1800
    /\ ahCalculated = Unset
    /\ ahAnalysis = Unset
    /\ QwIdle /\ GrpIdle /\ DetIdle /\ RestIdle

\* the call analyze_after_hours_waste(reportData, baselineData, config,
\* resolution) of generate_weekly_report.py:321
AnalyzeAfterHoursWaste ==
    /\ ahAnalysis = Unset
    /\ LET calculated == CalculatedResults(ahChannelsData, ahBaselinesData,
                                           ahConfig, ahIntervalSeconds)
       IN  /\ ahCalculated' = <<calculated>>
           /\ ahAnalysis' = <<AfterHoursReturn(calculated)>>
    /\ UNCHANGED <<ahInputs, qwVars, grpVars, detVars, restVars>>

AhNext == AnalyzeAfterHoursWaste

SpecAfterHours == AhInit /\ [][AhNext]_vars

(***************************************************************************)
(* Claims about the quick-wins synthesizer (checked under SpecQuickWins)   *)
(***************************************************************************)

QwReturned == quickWins # Unset
QwResult == quickWins[1]
QwCollected == CollectWins(analytics, qwConfig)

C2_Rank(win) ==
    CASE win.priority = "high" -> 0
      [] win.priority = "medium" -> 1
      [] win.priority = "low" -> 2

C2_Kwh(win) == IF win.weeklyKwh = NA THEN 0 ELSE win.weeklyKwh[2]

\* a comes no later than b in the order (priorityRank asc, weeklyKwh desc)
C2_InOrder(a, b) ==
    \/ C2_Rank(a) < C2_Rank(b)
    \/ C2_Rank(a) = C2_Rank(b) /\ C2_Kwh(a) >= C2_Kwh(b)

C2_Count(list, win) == Cardinality({i \in 1..Len(list) : list[i] = win})

\* C2: in the returned list every adjacent pair a, b has
\* priorityRank(a) <= priorityRank(b) and, at equal rank,
\* weeklyKwh(a) >= weeklyKwh(b) with 'N/A' counting as 0; and the returned
\* list is a prefix of that order over all the wins built: it holds only
\* wins that were built, and every win left out comes no earlier in the
\* order than the last win kept.
C2_SortedPrefix ==
    QwReturned =>
        /\ \A i \in 1..(Len(QwResult) - 1) :
              C2_InOrder(QwResult[i], QwResult[i + 1])
        /\ Len(QwResult) = Min2(Len(QwCollected), qwConfig.quickWins.maxCount)
        /\ \A i \in 1..Len(QwCollected) :
              LET w == QwCollected[i]
              IN  /\ C2_Count(QwResult, w) <= C2_Count(QwCollected, w)
                  /\ (C2_Count(QwResult, w) < C2_Count(QwCollected, w)
                        /\ QwResult # <<>>)
                      => C2_InOrder(QwResult[Len(QwResult)], w)
        /\ \A i \in 1..Len(QwResult) : C2_Count(QwCollected, QwResult[i]) > 0

\* C2 witness: the sort moved wins (the list built was not in order), the
\* result holds two wins of one rank with different kWh, a step down in
\* rank, an 'N/A' win, and a win was cut by the truncation.
C2_Witness ==
    /\ QwReturned
    /\ \E i \in 1..(Len(QwCollected) - 1) :
          ~C2_InOrder(QwCollected[i], QwCollected[i + 1])
    /\ \E i \in 1..(Len(QwResult) - 1) :
          /\ C2_Rank(QwResult[i]) = C2_Rank(QwResult[i + 1])
          /\ C2_Kwh(QwResult[i]) > C2_Kwh(QwResult[i + 1])
    /\ \E i \in 1..(Len(QwResult) - 1) :
          C2_Rank(QwResult[i]) < C2_Rank(QwResult[i + 1])
    /\ \E i \in 1..Len(QwResult) : QwResult[i].weeklyKwh = NA
    /\ Len(QwResult) < Len(QwCollected)

(***************************************************************************)
(* Claims about event grouping (checked under SpecGrouping)                *)
(*                                                                         *)
(* The flagged readings have strictly increasing timestamps, so the        *)
(* readings folded into an event are the flagged readings whose timestamp  *)
(* lies in [start, end] of the event.                                      *)
(***************************************************************************)

SpikesGrouped == spikeEvents # Unset
SpikeResult == spikeEvents[1]
AnomaliesGrouped == anomalyEvents # Unset
AnomalyResult == anomalyEvents[1]

Covers(e, i) == e.start <= flagged[i].ts /\ flagged[i].ts <= e.end
Folded(e) == {i \in 1..Len(flagged) : Covers(e, i)}
MaxPowerOf(S) ==
    CHOOSE p \in {flagged[i].power : i \in S} :
        \A i \in S : flagged[i].power <= p
FlaggedGap(i) == flagged[i + 1].ts - flagged[i].ts
Together(events, i) ==
    \E k \in 1..Len(events) : Covers(events[k], i) /\ Covers(events[k], i + 1)
NeverApart(events, i) ==
    \A k \in 1..Len(events) : Covers(events[k], i) <=> Covers(events[k], i + 1)

\* C3: every event returned by group_consecutive_spikes and by
\* group_consecutive_anomalies counts exactly the flagged readings folded
\* into it (spike `intervals`, the number in the anomaly `duration`) and
\* has as peakPower the maximum power among exactly those readings.
C3_EventCountAndPeak ==
    /\ SpikesGrouped =>
          \A k \in 1..Len(SpikeResult) :
              LET e == SpikeResult[k]
              IN  /\ Folded(e) # {}
                  /\ e.intervals = Cardinality(Folded(e))
                  /\ e.duration = <<Cardinality(Folded(e)), "intervals">>
                  /\ e.peakPower = MaxPowerOf(Folded(e))
    /\ AnomaliesGrouped =>
          \A k \in 1..Len(AnomalyResult) :
              LET e == AnomalyResult[k]
              IN  /\ Folded(e) # {}
                  /\ e.duration = <<Cardinality(Folded(e)), "intervals">>
                  /\ e.peakPower = MaxPowerOf(Folded(e))

\* C3 witness: both groupings returned an event of several readings whose
\* peak is not the power of its last reading.
C3_Witness ==
    /\ SpikesGrouped /\ AnomaliesGrouped
    /\ \E k \in 1..Len(SpikeResult) :
          /\ SpikeResult[k].intervals >= 2
          /\ \E i \in Folded(SpikeResult[k]) :
                /\ flagged[i].ts = SpikeResult[k].end
                /\ flagged[i].power < SpikeResult[k].peakPower
    /\ \E k \in 1..Len(AnomalyResult) :
          /\ AnomalyResult[k].duration[1] >= 2
          /\ \E i \in Folded(AnomalyResult[k]) :
                /\ flagged[i].ts = AnomalyResult[k].end
                /\ flagged[i].power < AnomalyResult[k].peakPower

\* C4: two successive flagged readings are folded into the same spike
\* event iff the gap between them is at most 2 x intervalSeconds; with
\* intervalSeconds = 900 a gap of 600 s merges and a following gap of
\* 2400 s starts a new event.
C4_SpikeMergeIffWithinTwoIntervals ==
    SpikesGrouped =>
        /\ \A i \in 1..(Len(flagged) - 1) :
              Together(SpikeResult, i) <=> FlaggedGap(i) <= 2 * grpInterval
        /\ (/\ grpInterval = 900 /\ Len(flagged) = 3
            /\ FlaggedGap(1) = 600 /\ FlaggedGap(2) = 2400)
           => /\ Len(SpikeResult) = 2
              /\ SpikeResult[1].start = flagged[1].ts
              /\ SpikeResult[1].end = flagged[2].ts
              /\ SpikeResult[1].intervals = 2
              /\ SpikeResult[2].start = flagged[3].ts
              /\ SpikeResult[2].intervals = 1

\* C4 witness: the scenario (900 s intervals, gaps of 600 s and 2400 s)
\* has been grouped.
C4_Witness ==
    /\ SpikesGrouped
    /\ grpInterval = 900 /\ Len(flagged) = 3
    /\ FlaggedGap(1) = 600 /\ FlaggedGap(2) = 2400
    /\ Len(SpikeResult) = 2

AnomaliesDetected == detAnomalyResult # Unset

SpikesDetected == detSpikeResult # Unset

ReportReadings == detChannelData.readings

\* the baseline powers of hour-of-week h, in ascending order
BaselineBucket(h) == SortAsc(BucketPowers(detBaselineData.readings, h))

\* hour-of-week h has at least one baseline reading
HasBaseline(h) == BaselineBucket(h) # <<>>

AnomalyFlagged(r) ==
    \E i \in 1..Len(detAnomalousReadings[1]) :
        detAnomalousReadings[1][i].ts = r.ts

SpikeFlagged(r) ==
    \E i \in 1..Len(detSpikes[1]) : detSpikes[1][i].ts = r.ts

\* q3 + iqrMultiplier x IQR of the baseline powers of hour h, in centi-kW
C7_UpperThreshold(h) ==
    LET q1 == percentile(BaselineBucket(h), 25)
        q3 == percentile(BaselineBucket(h), 75)
    IN  q3 + detConfig.anomaly.iqrMultiplier * (q3 - q1)

C7_ScenarioA(h) ==
    /\ BaselineBucket(h) = <<10, 10, 10, 10, 20>>
    /\ detConfig.anomaly.iqrMultiplier = 3

C8_IsSiteTotal == detSiteChannelId = <<detChannelData.channelId>>

C8_AbsoluteFloor ==
    IF C8_IsSiteTotal THEN detConfig.spike.siteMinKw
    ELSE detConfig.spike.submeterMinKw

\* power > max(p95 x multiplier, floor) and power > floor, both sides of
\* each comparison scaled by 100 x the multiplier's denominator
C8_Exceeds(power, h, floor) ==
    LET m == detConfig.spike.multiplier
        p95 == percentile(BaselineBucket(h), 95)
    IN  /\ power * 100 * m.den > Max2(p95 * m.num, floor * 100 * m.den)
        /\ power > floor

\* C8: detect_spikes flags a report reading whose hour-of-week has a
\* baseline if and only if power > max(p95 x multiplier, absoluteFloor) and
\* power > absoluteFloor, where absoluteFloor is spike.siteMinKw exactly
\* when the channel id equals the site-total channel id and
\* spike.submeterMinKw otherwise.
C8_SpikeIffAboveThresholdAndFloor ==
    SpikesDetected =>
        \A i \in 1..Len(ReportReadings) :
            LET r == ReportReadings[i]
            IN  HasBaseline(HourKey(r)) =>
                    (SpikeFlagged(r) <=>
                        C8_Exceeds(PowerOf(r), HourKey(r), C8_AbsoluteFloor))

\* the site-total channel after the call: one reading flagged, and another
\* not flagged that the submeter floor would have let through
C8_Witness ==
    /\ SpikesDetected
    /\ C8_IsSiteTotal
    /\ \E i, j \in 1..Len(ReportReadings) :
          /\ HasBaseline(HourKey(ReportReadings[i]))
          /\ SpikeFlagged(ReportReadings[i])
          /\ HasBaseline(HourKey(ReportReadings[j]))
          /\ ~SpikeFlagged(ReportReadings[j])
          /\ C8_Exceeds(PowerOf(ReportReadings[j]), HourKey(ReportReadings[j]),
                        detConfig.spike.submeterMinKw)

\* C9: the per-hour spike baseline is the spike.baselinePercentile-th
\* percentile of that hour's baseline readings: the baseline the detector
\* records with every spike it flags is that percentile.
C9_BaselineIsConfiguredPercentile ==
    SpikesDetected =>
        \A i \in 1..Len(detSpikes[1]) :
            detSpikes[1][i].baselineP95 =
                percentile(BaselineBucket(HourKey(detSpikes[1][i])),
                           detConfig.spike.baselinePercentile)

\* the report readings whose hour-of-week has a baseline entry
C10_Covered == SelectSeq(ReportReadings, LAMBDA r : HasBaseline(HourKey(r)))

C10_CoveredChannel == [detChannelData EXCEPT !.readings = C10_Covered]

\* C10: a report reading whose hour-of-week has no baseline entry is flagged
\* by neither detector, and each detector returns (without error) exactly
\* the result it returns when those readings are left out, so such a
\* reading contributes to no event, whatever its power.
C10_NoBaselineReadingIsSkipped ==
    /\ AnomaliesDetected =>
          /\ \A i \in 1..Len(ReportReadings) :
                ~HasBaseline(HourKey(ReportReadings[i]))
                    => ~AnomalyFlagged(ReportReadings[i])
          /\ detAnomalyResult[1] =
                detect_anomalies(C10_CoveredChannel, detBaselineData,
                                 detConfig, detIntervalSeconds)
    /\ SpikesDetected =>
          /\ \A i \in 1..Len(ReportReadings) :
                ~HasBaseline(HourKey(ReportReadings[i]))
                    => ~SpikeFlagged(ReportReadings[i])
          /\ detSpikeResult[1] =
                detect_spikes(C10_CoveredChannel, detBaselineData, detConfig,
                              detIntervalSeconds, C8_IsSiteTotal)

\* both detectors have run on a channel with a 45 kW reading at an hour
\* without baseline; both have flagged another reading, and the anomaly
\* detector has reported an event from it
C10_Witness ==
    /\ AnomaliesDetected
    /\ SpikesDetected
    /\ \E i, j \in 1..Len(ReportReadings) :
          /\ ~HasBaseline(HourKey(ReportReadings[i]))
          /\ PowerOf(ReportReadings[i]) = 45
          /\ AnomalyFlagged(ReportReadings[j])
          /\ SpikeFlagged(ReportReadings[j])
    /\ detAnomalyResult[1].anomalyCount > 0

(***************************************************************************)
(* Claims about the after-hours waste calculator                           *)
(***************************************************************************)

AfterHoursAnalyzed == ahAnalysis # Unset

\* the channels of channels_data that calculate_after_hours_waste was
\* called for, each with its result
AhResultOf(channelId) ==
    SelectSeq(ahCalculated[1], LAMBDA r : r.channelId = channelId)

AhChannel(i) == ahChannelsData[i]

\* every after-hours report reading of channel i has power <= the baseline
\* power computed for the channel
AhNeverAboveBaseline(i) ==
    /\ AhResultOf(AhChannel(i).channelId) # <<>>
    /\ \A k \in 1..Len(AhChannel(i).readings) :
          LET reading == AhChannel(i).readings[k]
          IN  IsAfterHours(reading, ahConfig) =>
                  PowerOf(reading) * 100
                      <= AhResultOf(AhChannel(i).channelId)[1].baseline.kw

AhListed(meters, channelId) ==
    \E k \in 1..Len(meters) : meters[k].channelId = channelId

\* C6 as stated: for every configuration, a channel whose report-period
\* after-hours readings all have power <= its computed after-hours baseline
\* gets an excessKwh of 0 and appears in neither topMeters nor allMeters.
C6_Original_ZeroExcessNeverListed ==
    AfterHoursAnalyzed =>
        \A i \in 1..Len(ahChannelsData) :
            AhNeverAboveBaseline(i) =>
                /\ AhResultOf(AhChannel(i).channelId)[1].impact.excessKwh = 0
                /\ ~AhListed(ahAnalysis[1].topMeters, AhChannel(i).channelId)
                /\ ~AhListed(ahAnalysis[1].allMeters, AhChannel(i).channelId)

\* C6: a channel whose report-period after-hours readings all have power <=
\* its computed after-hours baseline gets an excessKwh of 0, and it appears
\* in allMeters exactly when afterHours.minExcessKwh <= 0; it appears in
\* topMeters only then, and always then when allMeters has at most ten
\* entries.  For every configuration with a positive minExcessKwh it
\* appears in neither.
C6_ZeroExcessListedIffMinimumNotPositive ==
    AfterHoursAnalyzed =>
        \A i \in 1..Len(ahChannelsData) :
            AhNeverAboveBaseline(i) =>
                /\ AhResultOf(AhChannel(i).channelId)[1].impact.excessKwh = 0
                /\ AhListed(ahAnalysis[1].allMeters, AhChannel(i).channelId)
                       <=> ahConfig.afterHours.minExcessKwh <= 0
                /\ AhListed(ahAnalysis[1].topMeters, AhChannel(i).channelId)
                       => ahConfig.afterHours.minExcessKwh <= 0
                /\ (ahConfig.afterHours.minExcessKwh <= 0
                        /\ Len(ahAnalysis[1].allMeters) <= 10)
                       => AhListed(ahAnalysis[1].topMeters,
                                   AhChannel(i).channelId)

\* the analysis has run with a positive minExcessKwh on channels one of
\* which has an after-hours reading of a power below a positive baseline,
\* and another of which is listed
C6_Witness ==
    /\ AfterHoursAnalyzed
    /\ ahConfig.afterHours.minExcessKwh > 0
    /\ Len(ahAnalysis[1].allMeters) > 0
    /\ \E i \in 1..Len(ahChannelsData) :
          /\ AhNeverAboveBaseline(i)
          /\ AhResultOf(AhChannel(i).channelId)[1].baseline.kw > 0
          /\ \E k \in 1..Len(AhChannel(i).readings) :
                /\ IsAfterHours(AhChannel(i).readings[k], ahConfig)
                /\ 0 < PowerOf(AhChannel(i).readings[k])
                /\ PowerOf(AhChannel(i).readings[k]) * 100
                       < AhResultOf(AhChannel(i).channelId)[1].baseline.kw

(***************************************************************************)
(* Site-level anomaly and spike analysis:                                  *)
(* analyze/anomaly_detection.py:196-280, analytics/spike_detection.py:178-259 *)
(***************************************************************************)

\* list.sort(key=..., reverse=True) on a list of [key, val] pairs: stable,
\* pairs of equal key keep their order
RECURSIVE SortPairsDesc(_)
SortPairsDesc(pairs) ==
    IF pairs = <<>> THEN <<>>
    ELSE LET front == SortPairsDesc(SubSeq(pairs, 1, Len(pairs) - 1))
             x == pairs[Len(pairs)]
             k == Cardinality({i \in 1..Len(front) : front[i].key >= x.key})
         IN  SubSeq(front, 1, k) \o <<x>> \o SubSeq(front, k + 1, Len(front))

\* list.sort(key=...) on a list of [key, val] pairs: stable, ascending
RECURSIVE SortPairsAsc(_)
SortPairsAsc(pairs) ==
    IF pairs = <<>> THEN <<>>
    ELSE LET front == SortPairsAsc(SubSeq(pairs, 1, Len(pairs) - 1))
             x == pairs[Len(pairs)]
             k == Cardinality({i \in 1..Len(front) : front[i].key <= x.key})
         IN  SubSeq(front, 1, k) \o <<x>> \o SubSeq(front, k + 1, Len(front))

Vals(pairs) == [i \in 1..Len(pairs) |-> pairs[i].val]

RECURSIVE MaxSeq(_)
MaxSeq(s) == IF Len(s) = 1 THEN s[1] ELSE Max2(Head(s), MaxSeq(Tail(s)))

\* anomaly_detection.py:216-230: the results appended in the loop
RECURSIVE AnomalyResults(_, _, _, _)
AnomalyResults(channels_data, baselines_data, config, interval_seconds) ==
    IF channels_data = <<>> THEN <<>>
    ELSE LET channel_data == Head(channels_data)
             rest == AnomalyResults(Tail(channels_data), baselines_data,
                                    config, interval_seconds)
             baseline_data == FindBaseline(baselines_data, channel_data.channelId)
         IN  IF HasNoBaseline(baseline_data) THEN rest
             ELSE LET result == detect_anomalies(channel_data, baseline_data[1],
                                                 config, interval_seconds)
                  IN  IF result.anomalyCount > 0 THEN <<result>> \o rest
                      ELSE rest

EventExcess(r) ==
    SumSeq([i \in 1..Len(r.events) |-> r.events[i].totalExcessKwh])

\* anomaly_detection.py:254-280
generate_anomaly_timeline(results) ==
    LET EventsOf(r) ==
            [i \in 1..Len(r.events) |->
                [key |-> parse_timestamp(r.events[i].start),
                 val |-> [channelName |-> r.channelName,
                          start |-> r.events[i].start,
                          end |-> r.events[i].end,
                          peakPower |-> r.events[i].peakPower,
                          excessKwh |-> r.events[i].totalExcessKwh,
                          context |-> r.events[i].context]]]
        timeline[n \in 0..Len(results)] ==
            IF n = 0 THEN <<>> ELSE timeline[n - 1] \o EventsOf(results[n])
    IN  Vals(SortPairsAsc(timeline[Len(results)]))

\* anomaly_detection.py:232-251: sort, totals and what is returned
AnomaliesReturn(appended) ==
    LET results == Vals(SortPairsDesc(
                       [i \in 1..Len(appended) |->
                           [key |-> EventExcess(appended[i]),
                            val |-> appended[i]]]))
    IN  [channelsWithAnomalies |-> Len(results),
         totalAnomalyEvents |->
             SumSeq([i \in 1..Len(results) |-> results[i].anomalyCount]),
         totalExcessKwh |->
             SumSeq([i \in 1..Len(results) |-> EventExcess(results[i])]),
         results |-> results,
         timeline |-> generate_anomaly_timeline(results)]

\* anomaly_detection.py:196-251
analyze_anomalies(channels_data, baselines_data, config, interval_seconds) ==
    AnomaliesReturn(AnomalyResults(channels_data, baselines_data, config,
                                   interval_seconds))

\* spike_detection.py:200-214: the results appended in the loop;
\* site_channel_id is <<>> for None
RECURSIVE SpikeResults(_, _, _, _, _)
SpikeResults(channels_data, baselines_data, config, interval_seconds, site_channel_id) ==
    IF channels_data = <<>> THEN <<>>
    ELSE LET channel_data == Head(channels_data)
             rest == SpikeResults(Tail(channels_data), baselines_data, config,
                                  interval_seconds, site_channel_id)
             baseline_data == FindBaseline(baselines_data, channel_data.channelId)
         IN  IF HasNoBaseline(baseline_data) THEN rest
             ELSE LET is_site_total ==
                          <<channel_data.channelId>> = site_channel_id
                      result == detect_spikes(channel_data, baseline_data[1],
                                              config, interval_seconds,
                                              is_site_total)
                  IN  IF result.spikeCount > 0 THEN <<result>> \o rest
                      ELSE rest

\* spike_detection.py:218: max(e['peakPower'] for e in r['events']) if
\* r['events'] else 0
PeakOfResult(r) ==
    IF r.events = <<>> THEN 0
    ELSE MaxSeq([i \in 1..Len(r.events) |-> r.events[i].peakPower])

\* the first `count` events in the order of the results, not sorted
get_top_spikes_Unsorted(results, count) ==
    LET EventsOf(r) ==
            [i \in 1..Len(r.events) |->
                [channelName |-> r.channelName,
                 start |-> r.events[i].start,
                 end |-> r.events[i].end,
                 peakPower |-> r.events[i].peakPower,
                 totalExcessKwh |-> r.events[i].totalExcessKwh,
                 intervals |-> r.events[i].intervals,
                 duration |-> r.events[i].duration]]
        all_spikes[n \in 0..Len(results)] ==
            IF n = 0 THEN <<>> ELSE all_spikes[n - 1] \o EventsOf(results[n])
    IN  PySlicePrefix(all_spikes[Len(results)], count)

\* spike_detection.py:237-259: {'channelName': ..., **event}
get_top_spikes(results, count) ==
    LET EventsOf(r) ==
            [i \in 1..Len(r.events) |->
                [key |-> r.events[i].peakPower,
                 val |-> [channelName |-> r.channelName,
                          start |-> r.events[i].start,
                          end |-> r.events[i].end,
                          peakPower |-> r.events[i].peakPower,
                          totalExcessKwh |-> r.events[i].totalExcessKwh,
                          intervals |-> r.events[i].intervals,
                          duration |-> r.events[i].duration]]]
        all_spikes[n \in 0..Len(results)] ==
            IF n = 0 THEN <<>> ELSE all_spikes[n - 1] \o EventsOf(results[n])
    IN  PySlicePrefix(Vals(SortPairsDesc(all_spikes[Len(results)])), count)

\* spike_detection.py:216-234: sort, totals and what is returned
SpikesReturn(appended) ==
    LET results == Vals(SortPairsDesc(
                       [i \in 1..Len(appended) |->
                           [key |-> PeakOfResult(appended[i]),
                            val |-> appended[i]]]))
    IN  [channelsWithSpikes |-> Len(results),
         totalSpikeEvents |->
             SumSeq([i \in 1..Len(results) |-> results[i].spikeCount]),
         totalExcessKwh |->
             SumSeq([i \in 1..Len(results) |-> EventExcess(results[i])]),
         results |-> results,
         topSpikes |-> get_top_spikes(results, 10)]

\* spike_detection.py:178-234
analyze_spikes(channels_data, baselines_data, config, interval_seconds, site_channel_id) ==
    SpikesReturn(SpikeResults(channels_data, baselines_data, config,
                              interval_seconds, site_channel_id))

(***************************************************************************)
(* A site run: the analysers called on the report and baseline data of a   *)
(* site, in the order of generate_weekly_report.py:311-345.                *)
(*                                                                         *)
(* A site has up to MaxSiteChannels channels, numbered in list order.      *)
(* Each has three report readings half an hour apart from 17:30 of the     *)
(* report Monday (one in business hours, two after hours); the first       *)
(* channel may instead have five, the last two at 20:30 and 21:00, two     *)
(* hours after the third.  A baseline series is absent, empty, or has      *)
(* readings of one power at those five times a week earlier.               *)
(***************************************************************************)

MaxSiteChannels == 2

SiteReportChoices ==
    { <<<<10>>, <<10>>, <<10>>>>, <<<<10>>, <<45>>, <<45>>>>,
      <<<<45>>, <<45>>, <<45>>>>, <<<<45>>, <<10>>, <<45>>>> }

\* five readings: flagged ones on both sides of the two-hour gap
SiteLongReportChoices ==
    { <<<<11>>, <<10>>, <<10>>, <<45>>, <<45>>>>,
      <<<<45>>, <<45>>, <<45>>, <<45>>, <<45>>>> }

\* <<>>: no baseline series; <<0>>: a series without readings; <<p>>: a
\* series of readings of p kW
SiteBaselineChoices == {<<>>, <<0>>, <<10>>, <<20>>}

\* seconds from the first reading of a series to its i-th
SiteOffsets == <<0, 1800, 3600, 10800, 12600>>

SiteReadings(first, powers) ==
    [i \in 1..Len(powers) |-> [ts |-> first + SiteOffsets[i], P |-> powers[i]]]

SiteChannel(id, report) ==
    [channelId |-> id, channelName |-> id,
     readings |-> SiteReadings(AhFirstReport, report)]

SiteBaseline(id, b) ==
    [channelId |-> id,
     readings |-> IF b[1] = 0 THEN <<>>
                  ELSE SiteReadings(AhFirstBaseline,
                                    [i \in 1..Len(SiteOffsets) |-> <<b[1]>>])]

\* the baseline series of the channels that have one, in channel order
RECURSIVE SiteBaselines(_, _)
SiteBaselines(b, id) ==
    IF id > Len(b) THEN <<>>
    ELSE (IF b[id] = <<>> THEN <<>> ELSE <<SiteBaseline(id, b[id])>>)
         \o SiteBaselines(b, id + 1)

\* report_config.py:13-88: DEFAULT_CONFIG
SiteDefaultConfig ==
    [businessHours |-> DefaultBusinessHours,
     afterHours |-> DefaultAfterHoursConfig.afterHours,
     anomaly |-> DefaultDetectConfig.anomaly,
     spike |-> DefaultDetectConfig.spike]

\* a configuration merged from overrides (report_config.py:91-114)
SiteOverrideConfig ==
    [businessHours |-> DefaultBusinessHours,
     afterHours |-> OverrideAfterHoursConfig.afterHours,
     anomaly |-> OverrideDetectConfig.anomaly,
     spike |-> OverrideDetectConfig.spike]

\* A site of several channels with two runs of high readings each, to fill
\* topSpikes beyond its ten entries: the i-th channel has the five
\* readings p, p, p, q, q kW for the i-th pair <<p, q>> of SiteCrowdPowers
\* and a baseline of 10 kW.
MaxCrowdChannels == 6

SiteCrowdPowers ==
    <<<<45, 30>>, <<25, 50>>, <<30, 30>>, <<60, 20>>, <<35, 55>>, <<40, 25>>,
      <<20, 65>>>>

SiteCrowdChannel(i) ==
    LET pq == SiteCrowdPowers[((i - 1) % Len(SiteCrowdPowers)) + 1]
    IN  SiteChannel(i, <<<<pq[1]>>, <<pq[1]>>, <<pq[1]>>, <<pq[2]>>, <<pq[2]>>>>)

SiteCrowd ==
    \E n \in 3..MaxCrowdChannels :
        /\ siteChannelsData = [i \in 1..n |-> SiteCrowdChannel(i)]
        /\ siteBaselinesData = [i \in 1..n |-> SiteBaseline(i, <<10>>)]

SiteInit ==
    /\ \/ \E n \in 1..MaxSiteChannels :
             \E r \in [1..n -> SiteReportChoices \cup SiteLongReportChoices],
                b \in [1..n -> SiteBaselineChoices] :
                 /\ \A i \in 2..n : r[i] \in SiteReportChoices
                 /\ siteChannelsData = [i \in 1..n |-> SiteChannel(i, r[i])]
                 /\ siteBaselinesData = SiteBaselines(b, 1)
       \/ SiteCrowd
    /\ siteConfig \in {SiteDefaultConfig, SiteOverrideConfig}
    /\ siteIntervalSeconds = 1800
    /\ siteTotalChannelId \in {<<>>, <<1>>}
    /\ siteAfterHours = Unset
    /\ siteAnomalies = Unset
    /\ siteSpikes = Unset
    /\ NotSiteIdle

\* generate_weekly_report.py:321-326
SiteAfterHoursWaste ==
    /\ siteAfterHours = Unset
    /\ siteAfterHours' =
          <<analyze_after_hours_waste(siteChannelsData, siteBaselinesData,
                                      siteConfig, siteIntervalSeconds)>>
    /\ siteChannelsData' = ChannelsAfterCall(siteChannelsData)
    /\ siteBaselinesData' = ChannelsAfterCall(siteBaselinesData)
    /\ UNCHANGED <<siteConfig, siteIntervalSeconds, siteTotalChannelId,
                   siteAnomalies, siteSpikes, notSiteVars>>

\* generate_weekly_report.py:330-335
SiteAnomalies ==
    /\ siteAfterHours # Unset
    /\ siteAnomalies = Unset
    /\ siteAnomalies' =
          <<analyze_anomalies(siteChannelsData, siteBaselinesData,
                              siteConfig, siteIntervalSeconds)>>
    /\ siteChannelsData' = ChannelsAfterCall(siteChannelsData)
    /\ siteBaselinesData' = ChannelsAfterCall(siteBaselinesData)
    /\ UNCHANGED <<siteConfig, siteIntervalSeconds, siteTotalChannelId,
                   siteAfterHours, siteSpikes, notSiteVars>>

\* generate_weekly_report.py:339-344: no site_channel_id is passed there;
\* analyze_spikes is also modelled with one (spike_detection.py:183)
SiteSpikes ==
    /\ siteAnomalies # Unset
    /\ siteSpikes = Unset
    /\ siteSpikes' =
          <<analyze_spikes(siteChannelsData, siteBaselinesData, siteConfig,
                           siteIntervalSeconds, siteTotalChannelId)>>
    /\ siteChannelsData' = ChannelsAfterCall(siteChannelsData)
    /\ siteBaselinesData' = ChannelsAfterCall(siteBaselinesData)
    /\ UNCHANGED <<siteConfig, siteIntervalSeconds, siteTotalChannelId,
                   siteAfterHours, siteAnomalies, notSiteVars>>

SiteNext == SiteAfterHoursWaste \/ SiteAnomalies \/ SiteSpikes

SpecSite == SiteInit /\ [][SiteNext]_vars

(***************************************************************************)
(* Claims about a site run                                                 *)
(***************************************************************************)

\* the channel has no baseline series, or a series without readings
SiteNoBaseline(channel_data) ==
    \A j \in 1..Len(siteBaselinesData) :
        siteBaselinesData[j].channelId = channel_data.channelId
            => siteBaselinesData[j].readings = <<>>

\* the report channels without those that have no baseline readings
SiteWithBaseline ==
    SelectSeq(siteChannelsData, LAMBDA c : ~SiteNoBaseline(c))

ListsChannel(list, id) == \E k \in 1..Len(list) : list[k].channelId = id

NamesChannel(list, name) == \E k \in 1..Len(list) : list[k].channelName = name

\* C11: in analyze_after_hours_waste, analyze_anomalies and analyze_spikes
\* a report channel without baseline series, or with a baseline series of
\* zero readings, appears in no result list, and the analyser returns
\* (without raising) exactly what it returns when such channels are absent
\* from the call: they contribute nothing to totals and every other channel
\* is analysed as if they were not there.
C11_ChannelWithoutBaselineIsSkipped ==
    /\ siteAfterHours # Unset =>
          /\ \A i \in 1..Len(siteChannelsData) :
                SiteNoBaseline(siteChannelsData[i]) =>
                    /\ ~ListsChannel(siteAfterHours[1].topMeters, i)
                    /\ ~ListsChannel(siteAfterHours[1].allMeters, i)
          /\ siteAfterHours[1] =
                analyze_after_hours_waste(SiteWithBaseline, siteBaselinesData,
                                          siteConfig, siteIntervalSeconds)
    /\ siteAnomalies # Unset =>
          /\ \A i \in 1..Len(siteChannelsData) :
                SiteNoBaseline(siteChannelsData[i]) =>
                    /\ ~ListsChannel(siteAnomalies[1].results, i)
                    /\ ~NamesChannel(siteAnomalies[1].timeline, i)
          /\ siteAnomalies[1] =
                analyze_anomalies(SiteWithBaseline, siteBaselinesData,
                                  siteConfig, siteIntervalSeconds)
    /\ siteSpikes # Unset =>
          /\ \A i \in 1..Len(siteChannelsData) :
                SiteNoBaseline(siteChannelsData[i]) =>
                    /\ ~ListsChannel(siteSpikes[1].results, i)
                    /\ ~NamesChannel(siteSpikes[1].topSpikes, i)
          /\ siteSpikes[1] =
                analyze_spikes(SiteWithBaseline, siteBaselinesData, siteConfig,
                               siteIntervalSeconds, siteTotalChannelId)

\* the three analysers have run on a site whose first channel, with 45 kW
\* readings, has a baseline series of zero readings, and whose second
\* channel is listed by all three
C11_Witness ==
    /\ siteAfterHours # Unset /\ siteAnomalies # Unset /\ siteSpikes # Unset
    /\ Len(siteChannelsData) = 2
    /\ PowerOf(siteChannelsData[1].readings[2]) = 45
    /\ ListsChannel(siteBaselinesData, 1)
    /\ SiteNoBaseline(siteChannelsData[1])
    /\ ListsChannel(siteAfterHours[1].allMeters, 2)
    /\ ListsChannel(siteAnomalies[1].results, 2)
    /\ ListsChannel(siteSpikes[1].results, 2)

(***************************************************************************)
(* Sensor health: analyze/sensor_health.py, lib/stats_utils.py             *)
(*                                                                         *)
(* Here a timestamp carries the Python type it arrives in, because         *)
(* find_gaps and parse_timestamp do not accept the same types: it is       *)
(* [form, at] with form "datetime" (a zone-aware datetime object), "iso"   *)
(* (an ISO-8601 string) or "epoch" (a number of Unix seconds), and `at`    *)
(* the instant in seconds.  A call either returns or raises: its outcome   *)
(* is [returns |-> value] or [raises |-> exception].  The formatted texts  *)
(* of an issue (description, "%.1f hours") are held as the numbers they    *)
(* print.                                                                  *)
(***************************************************************************)

Returns(value) == [returns |-> value]

Raises(exception) == [raises |-> exception]

HasRaised(outcome) == "raises" \in DOMAIN outcome

\* round(a / b) of Python 3 for a >= 0, b > 0: a half goes to the even side
PyRound(a, b) ==
    LET q == a \div b
        r == a % b
    IN  IF 2 * r > b \/ (2 * r = b /\ q % 2 = 1) THEN q + 1 ELSE q

\* stats_utils.py:259: actual_interval > expected_interval_seconds * 1.1.
\* For whole seconds the float product never rounds below 1.1 x expected,
\* so the test is the exact one.
ExceedsTolerance_Inclusive(actual_interval, expected_interval_seconds) ==
    10 * actual_interval >= 11 * expected_interval_seconds

ExceedsTolerance(actual_interval, expected_interval_seconds) ==
    10 * actual_interval > 11 * expected_interval_seconds

\* stats_utils.py:260-266
Gap(prev_time, curr_time, expected_interval_seconds) ==
    LET actual_interval == curr_time.at - prev_time.at
    IN  [start |-> prev_time, end |-> curr_time,
         expectedIntervals |-> PyRound(actual_interval, expected_interval_seconds),
         actualInterval |-> actual_interval,
         missingIntervals |->
             PyRound(actual_interval, expected_interval_seconds) - 1]

\* stats_utils.py:246-266: the gaps appended from pair i on; only a str is
\* converted (lines 251-254), so a number reaches line 256 as it is
RECURSIVE GapsFrom(_, _, _)
GapsFrom(timestamps, expected_interval_seconds, i) ==
    IF i > Len(timestamps) THEN <<>>
    ELSE (IF ExceedsTolerance(timestamps[i].at - timestamps[i - 1].at,
                              expected_interval_seconds)
          THEN <<Gap(timestamps[i - 1], timestamps[i], expected_interval_seconds)>>
          ELSE <<>>)
         \o GapsFrom(timestamps, expected_interval_seconds, i + 1)

\* stats_utils.py:232-268.  Line 256 takes .total_seconds() of the
\* difference: the difference of two numbers has none (AttributeError) and
\* a datetime minus a number is a TypeError.
find_gaps(timestamps, expected_interval_seconds) ==
    IF /\ Len(timestamps) >= 2
       /\ \E i \in 1..Len(timestamps) : timestamps[i].form = "epoch"
    THEN Raises("AttributeError")
    ELSE Returns(GapsFrom(timestamps, expected_interval_seconds, 2))

\* a completeness of expected / actual
calculate_completeness_Inverted(actual_count, expected_count) ==
    IF actual_count = 0 THEN [num |-> 0, den |-> 1]
    ELSE [num |-> expected_count * 100, den |-> actual_count]

\* stats_utils.py:216-229, as a fraction
calculate_completeness(actual_count, expected_count) ==
    IF expected_count = 0 THEN [num |-> 0, den |-> 1]
    ELSE [num |-> actual_count * 100, den |-> expected_count]

\* stats_utils.py:161-184: `index` counts from 0; variance is std ** 2
rolling_variance(values, window_size) ==
    [k \in 1..(Len(values) - window_size + 1) |->
        LET stats == calculate_stats(SubSeq(values, k, k + window_size - 1))
        IN  [index |-> k + window_size - 2,
             variance |-> [num |-> stats.std.sq,
                           den |-> stats.std.den * stats.std.den],
             mean |-> stats.mean]]

\* sensor_health.py:51-63
RECURSIVE MissingDataIssues(_, _, _)
MissingDataIssues(gaps, channel_data, gap_multiplier) ==
    IF gaps = <<>> THEN <<>>
    ELSE LET gap == Head(gaps)
         IN  (IF gap.missingIntervals >= gap_multiplier
              THEN <<[type |-> "missing_data",
                      severity |-> IF gap.missingIntervals > 10
                                   THEN "high" ELSE "medium",
                      channelId |-> channel_data.channelId,
                      channelName |-> channel_data.channelName,
                      start |-> gap.start, end |-> gap.end,
                      missingIntervals |-> gap.missingIntervals,
                      duration |-> gap.actualInterval]>>
              ELSE <<>>)
             \o MissingDataIssues(Tail(gaps), channel_data, gap_multiplier)

\* sensor_health.py:66: channel_data.get('expectedIntervals', len(readings))
ExpectedIntervals(channel_data) ==
    IF "expectedIntervals" \in DOMAIN channel_data
    THEN channel_data.expectedIntervals
    ELSE Len(channel_data.readings)

\* sensor_health.py:65-79
CompletenessIssues(channel_data, missing_threshold_pct) ==
    LET expected_intervals == ExpectedIntervals(channel_data)
        actual_intervals == Len(channel_data.readings)
        completeness ==
            calculate_completeness(actual_intervals, expected_intervals)
    IN  IF completeness.num < (100 - missing_threshold_pct) * completeness.den
        THEN <<[type |-> "low_completeness",
                severity |-> IF completeness.num < 50 * completeness.den
                             THEN "high" ELSE "medium",
                channelId |-> channel_data.channelId,
                channelName |-> channel_data.channelName,
                completeness |-> completeness,
                missingCount |-> expected_intervals - actual_intervals]>>
        ELSE <<>>

\* sensor_health.py:82-86: the filter of None and NaN removes nothing,
\* PowerOf never yields None
PowerReadings(readings) == [i \in 1..Len(readings) |-> PowerOf(readings[i])]

\* sensor_health.py:95: variance < threshold and mean > 0.1
IsFlat(stat, flatline_variance_threshold) ==
    /\ stat.variance.num * flatline_variance_threshold.den
           < flatline_variance_threshold.num * stat.variance.den
    /\ 10 * stat.mean.num > stat.mean.den

\* sensor_health.py:97-110
FlatlineIssue(stat, channel_data, flatline_window) ==
    LET start_idx == stat.index - flatline_window + 1
        end_idx == stat.index
    IN  [type |-> "flatline", severity |-> "medium",
         channelId |-> channel_data.channelId,
         channelName |-> channel_data.channelName,
         start |-> channel_data.readings[start_idx + 1].ts,
         end |-> channel_data.readings[end_idx + 1].ts,
         meanPower |-> stat.mean,
         variance |-> stat.variance]

\* the scan of lines 94-110 without the break of line 113
RECURSIVE FlatlineScan_NoBreak(_, _, _, _, _)
FlatlineScan_NoBreak(rolling, k, channel_data, flatline_window, threshold) ==
    IF k > Len(rolling) THEN <<>>
    ELSE (IF IsFlat(rolling[k], threshold)
          THEN <<FlatlineIssue(rolling[k], channel_data, flatline_window)>>
          ELSE <<>>)
         \o FlatlineScan_NoBreak(rolling, k + 1, channel_data,
                                 flatline_window, threshold)

\* sensor_health.py:94-113 from entry k of `rolling` on: the break ends the
\* scan at the first flat window
RECURSIVE FlatlineScan(_, _, _, _, _)
FlatlineScan(rolling, k, channel_data, flatline_window, threshold) ==
    IF k > Len(rolling) THEN <<>>
    ELSE IF IsFlat(rolling[k], threshold)
         THEN <<FlatlineIssue(rolling[k], channel_data, flatline_window)>>
         ELSE FlatlineScan(rolling, k + 1, channel_data, flatline_window,
                           threshold)

\* sensor_health.py:89: int((flatline_hours * 3600) / interval_seconds)
FlatlineWindow(flatline_hours, interval_seconds) ==
    (flatline_hours * 3600) \div interval_seconds

\* sensor_health.py:81-113.  A window of zero samples gives rolling
\* statistics of empty slices, whose mean 0 is never above 0.1.
FlatlineIssues(channel_data, config, interval_seconds) ==
    LET power_readings == PowerReadings(channel_data.readings)
        flatline_window ==
            FlatlineWindow(config.sensorHealth.flatlineHours, interval_seconds)
    IN  IF /\ Len(power_readings) > 0
           /\ flatline_window > 0
           /\ Len(power_readings) >= flatline_window
        THEN FlatlineScan(rolling_variance(power_readings, flatline_window), 1,
                          channel_data, flatline_window,
                          config.sensorHealth.flatlineVarianceThreshold)
        ELSE <<>>

\* a staleness test that also fires at exactly staleHours
StaleIssues_Inclusive(channel_data, config, now) ==
    IF Len(channel_data.readings) > 0
    THEN LET last_reading == channel_data.readings[Len(channel_data.readings)]
             seconds_since_last_reading == now - last_reading.ts.at
         IN  IF seconds_since_last_reading >= config.sensorHealth.staleHours * 3600
             THEN <<[type |-> "stale_data",
                     severity |-> IF seconds_since_last_reading > 24 * 3600
                                  THEN "high" ELSE "low",
                     channelId |-> channel_data.channelId,
                     channelName |-> channel_data.channelName,
                     lastReading |-> last_reading.ts,
                     hoursSince |-> seconds_since_last_reading,
                     source |-> "inferred_from_timestamps"]>>
             ELSE <<>>
    ELSE <<>>

\* sensor_health.py:115-132; `now` is the value datetime.now() returns
\* during the call, and parse_timestamp accepts the three forms
StaleIssues(channel_data, config, now) ==
    IF Len(channel_data.readings) > 0
    THEN LET last_reading == channel_data.readings[Len(channel_data.readings)]
             seconds_since_last_reading == now - last_reading.ts.at
         IN  IF seconds_since_last_reading > config.sensorHealth.staleHours * 3600
             THEN <<[type |-> "stale_data",
                     severity |-> IF seconds_since_last_reading > 24 * 3600
                                  THEN "high" ELSE "low",
                     channelId |-> channel_data.channelId,
                     channelName |-> channel_data.channelName,
                     lastReading |-> last_reading.ts,
                     hoursSince |-> seconds_since_last_reading,
                     source |-> "inferred_from_timestamps"]>>
             ELSE <<>>
    ELSE <<>>

\* sensor_health.py:19-134
analyze_sensor_health(channel_data, config, interval_seconds, now) ==
    LET gaps == find_gaps([i \in 1..Len(channel_data.readings) |->
                              channel_data.readings[i].ts],
                          interval_seconds)
    IN  IF HasRaised(gaps) THEN gaps
        ELSE Returns(
                 MissingDataIssues(gaps.returns, channel_data,
                                   config.sensorHealth.gapMultiplier)
                 \o CompletenessIssues(channel_data,
                                       config.sensorHealth.missingThresholdPct)
                 \o FlatlineIssues(channel_data, config, interval_seconds)
                 \o StaleIssues(channel_data, config, now))

\* sensor_health.py:183-193: the issue types in order of first appearance
\* (a dict keeps insertion order)
RECURSIVE IssueTypes(_)
IssueTypes(issues) ==
    IF issues = <<>> THEN <<>>
    ELSE LET front == IssueTypes(SubSeq(issues, 1, Len(issues) - 1))
             t == issues[Len(issues)].type
         IN  IF \E k \in 1..Len(front) : front[k] = t THEN front
             ELSE Append(front, t)

\* sensor_health.py:173-208, without the description text, which lists up
\* to three channel names in the iteration order of a set
generate_health_summary(issues) ==
    LET types == IssueTypes(issues)
    IN  [k \in 1..Len(types) |->
            LET of_type == SelectSeq(issues, LAMBDA i : i.type = types[k])
            IN  [type |-> types[k],
                 count |-> Len(of_type),
                 affectedChannels |->
                     Cardinality({of_type[j].channelName :
                                      j \in 1..Len(of_type)})]]

\* sensor_health.py:153-157: the issues of the channels in list order; an
\* exception of analyze_sensor_health leaves the loop and the function,
\* there is no handler
RECURSIVE AllIssues(_, _, _, _)
AllIssues(channels_data, config, interval_seconds, now) ==
    IF channels_data = <<>> THEN Returns(<<>>)
    ELSE LET issues == analyze_sensor_health(Head(channels_data), config,
                                             interval_seconds, now)
         IN  IF HasRaised(issues) THEN issues
             ELSE LET rest == AllIssues(Tail(channels_data), config,
                                        interval_seconds, now)
                  IN  IF HasRaised(rest) THEN rest
                      ELSE Returns(issues.returns \o rest.returns)

\* the issues left in the order of collection
SortBySeverity_Unsorted(all_issues) == all_issues

\* sensor_health.py:160-161: list.sort is stable
SortBySeverity(all_issues) ==
    Vals(SortPairsAsc([i \in 1..Len(all_issues) |->
             [key |-> SeverityRank(all_issues[i].severity),
              val |-> all_issues[i]]]))

\* sensor_health.py:137-170
analyze_sensor_health_for_site(channels_data, config, interval_seconds, now) ==
    LET collected == AllIssues(channels_data, config, interval_seconds, now)
    IN  IF HasRaised(collected) THEN collected
        ELSE LET all_issues == SortBySeverity(collected.returns)
             IN  Returns(
                   [totalIssues |-> Len(all_issues),
                    highSeverity |->
                        Len(SelectSeq(all_issues,
                                      LAMBDA i : i.severity = "high")),
                    mediumSeverity |->
                        Len(SelectSeq(all_issues,
                                      LAMBDA i : i.severity = "medium")),
                    lowSeverity |->
                        Len(SelectSeq(all_issues,
                                      LAMBDA i : i.severity = "low")),
                    issues |-> all_issues,
                    summary |-> generate_health_summary(all_issues)])

(***************************************************************************)
(* Sensor-health runs                                                      *)
(*                                                                         *)
(* A site has a first channel drawn from four families (varied distances   *)
(* between readings, varied powers, varied expected counts, varied         *)
(* timestamp forms) and up to MaxShChannels - 1 further channels from a    *)
(* short menu.  analyze_sensor_health_for_site is called twice on the      *)
(* same arguments; the wall clock, which the call reads, may advance       *)
(* between the two calls.                                                  *)
(***************************************************************************)

MaxShChannels == 2
MaxShReadings == 3

ShFirstReport == ReportStart

\* distances between successive readings, in seconds
ShGapChoices == {900, 990, 2250, 3150, 9900, 10800}

ShPowerChoices == {<<>>, <<10>>, <<30>>}

ShExpectedChoices == {0, 2, 4}

\* the wall clock at a call
ClockChoices ==
    {ShFirstReport + 8 * 3600, ShFirstReport + 10 * 3600,
     ShFirstReport + 40 * 3600}

\* readings at the given distances; powers[i] is the power of reading i
RECURSIVE ShTimes(_, _)
ShTimes(first, gaps) ==
    IF gaps = <<>> THEN <<first>>
    ELSE <<first>> \o ShTimes(first + Head(gaps), Tail(gaps))

ShReadings(form, times, powers) ==
    [i \in 1..Len(powers) |->
        [ts |-> [form |-> form, at |-> times[i]], P |-> powers[i]]]

\* readings 900 s apart
ShRegular(form, powers) ==
    ShReadings(form, [i \in 1..Len(powers) |-> ShFirstReport + (i - 1) * 900],
               powers)

\* powers 10, 30, 10, ..: no two successive readings are equal
ShAlternating(n) == [i \in 1..n |-> IF i % 2 = 1 THEN <<10>> ELSE <<30>>]

ShChannel(id, readings) ==
    [channelId |-> id, channelName |-> id, readings |-> readings]

ShFirstChannels ==
    {ShChannel(1, ShReadings("datetime", ShTimes(ShFirstReport, gaps),
                             ShAlternating(Len(gaps) + 1))) :
        gaps \in SeqsUpTo(ShGapChoices, MaxShReadings - 1)}
    \cup {ShChannel(1, ShRegular("datetime", powers)) :
              powers \in SeqsUpTo(ShPowerChoices, MaxShReadings)}
    \cup {[channelId |-> 1, channelName |-> 1,
           readings |-> ShRegular("datetime", ShAlternating(n)),
           expectedIntervals |-> e] :
              n \in 0..MaxShReadings, e \in ShExpectedChoices}
    \cup {ShChannel(1, ShRegular(form, ShAlternating(n))) :
              form \in {"iso", "epoch"}, n \in 1..MaxShReadings}

\* a channel in order, and one whose timestamps are Unix seconds
ShOtherChannels(id) ==
    {ShChannel(id, ShRegular("datetime", <<<<10>>, <<30>>>>)),
     ShChannel(id, ShRegular("epoch", <<<<10>>, <<30>>>>))}

\* report_config.py:38-44
ShDefaultConfig ==
    [sensorHealth |->
        [gapMultiplier |-> 2, staleHours |-> 2, missingThresholdPct |-> 10,
         flatlineHours |-> 6,
         flatlineVarianceThreshold |-> [num |-> 1, den |-> 100]]]

\* a configuration merged from overrides (report_config.py:91-114)
ShOverrideConfig ==
    [sensorHealth |->
        [gapMultiplier |-> 1, staleHours |-> 8, missingThresholdPct |-> 25,
         flatlineHours |-> 1,
         flatlineVarianceThreshold |-> [num |-> 1, den |-> 1]]]

ShInit ==
    /\ \E n \in 1..MaxShChannels :
          \E first \in ShFirstChannels :
             \E others \in [2..n -> {1, 2}] :
                shChannelsData =
                    [i \in 1..n |->
                        IF i = 1 THEN first
                        ELSE CHOOSE c \in ShOtherChannels(i) :
                                 (c.readings[1].ts.form = "epoch")
                                     <=> (others[i] = 2)]
    /\ shConfig \in {ShDefaultConfig, ShOverrideConfig}
    /\ shIntervalSeconds \in {900, 1800}
    /\ clock \in ClockChoices
    /\ shFirst = Unset
    /\ shSecond = Unset
    /\ NotShIdle

\* the caller's first call (generate_weekly_report.py:313-317); line 119 of
\* sensor_health.py reads the clock
SensorHealthFirst ==
    /\ shFirst = Unset
    /\ shFirst' =
          <<[now |-> clock,
             outcome |-> analyze_sensor_health_for_site(
                             shChannelsData, shConfig, shIntervalSeconds,
                             clock)]>>
    /\ shChannelsData' = ChannelsAfterCall(shChannelsData)
    /\ UNCHANGED <<shConfig, shIntervalSeconds, clock, shSecond, notShVars>>

\* time passes between the two calls
Tick ==
    /\ shFirst # Unset
    /\ shSecond = Unset
    /\ \E later \in ClockChoices : later > clock /\ clock' = later
    /\ UNCHANGED <<shInputs, shFirst, shSecond, notShVars>>

\* a second call with the same arguments
SensorHealthSecond ==
    /\ shFirst # Unset
    /\ shSecond = Unset
    /\ shSecond' =
          <<[now |-> clock,
             outcome |-> analyze_sensor_health_for_site(
                             shChannelsData, shConfig, shIntervalSeconds,
                             clock)]>>
    /\ shChannelsData' = ChannelsAfterCall(shChannelsData)
    /\ UNCHANGED <<shConfig, shIntervalSeconds, clock, shFirst, notShVars>>

ShNext == SensorHealthFirst \/ Tick \/ SensorHealthSecond

SpecSensor == ShInit /\ [][ShNext]_vars

(***************************************************************************)
(* Claims about sensor health                                              *)
(***************************************************************************)

\* the calls made so far
ShCalls == {c \in {shFirst, shSecond} : c # Unset}

\* what analyze_sensor_health does on channel i at the time `now`
ShChannelOutcome(i, now) ==
    analyze_sensor_health(shChannelsData[i], shConfig, shIntervalSeconds, now)

IsIssueOf(list, issue) == \E k \in 1..Len(list) : list[k] = issue

\* C12: when analyze_sensor_health raises on one channel of a call of
\* analyze_sensor_health_for_site, the call does not abort: it returns, and
\* its issues hold every issue of every channel on which the detector does
\* not raise.
C12_OtherChannelsAreStillAnalysed ==
    \A c \in ShCalls :
        /\ ~HasRaised(c[1].outcome)
        /\ \A i \in 1..Len(shChannelsData) :
              LET o == ShChannelOutcome(i, c[1].now)
              IN  ~HasRaised(o) =>
                      \A k \in 1..Len(o.returns) :
                          IsIssueOf(c[1].outcome.returns.issues, o.returns[k])

(***************************************************************************)
(* Readings without power                                                  *)
(*                                                                         *)
(* One series of up to MaxNullReadings readings half an hour apart from    *)
(* 06:00 of the baseline Monday, each with a power of None, 0, 10 or 20    *)
(* kW, is given to the two baseline profilers and to the flatline check of *)
(* analyze_sensor_health (window of two samples).                          *)
(***************************************************************************)

MaxNullReadings == 3

NullPowerChoices == {<<>>, <<0>>, <<10>>, <<20>>}

NullReadings(powers) ==
    [i \in 1..Len(powers) |->
        [ts |-> BaselineStart + 6 * 3600 + (i - 1) * 1800, P |-> powers[i]]]

NullInit ==
    /\ \E powers \in SeqsUpTo(NullPowerChoices, MaxNullReadings) :
          nullReadings = NullReadings(powers)
    /\ nullProfile = Unset
    /\ nullSpikeBaseline = Unset
    /\ nullFlatline = Unset
    /\ NotNullIdle

\* anomaly_detection.py:18-55
BuildBaselineProfile ==
    /\ nullProfile = Unset
    /\ nullProfile' = <<build_baseline_profile(nullReadings, DefaultDetectConfig)>>
    /\ UNCHANGED <<nullReadings, nullSpikeBaseline, nullFlatline, notNullVars>>

\* spike_detection.py:14-46
BuildSpikeBaseline ==
    /\ nullSpikeBaseline = Unset
    /\ nullSpikeBaseline' = <<build_spike_baseline(nullReadings)>>
    /\ UNCHANGED <<nullReadings, nullProfile, nullFlatline, notNullVars>>

\* sensor_health.py:81-113: the list the rolling windows are cut from, and
\* the flatline issue found
FlatlineCheck ==
    /\ nullFlatline = Unset
    /\ nullFlatline' =
          <<[power_readings |-> PowerReadings(nullReadings),
             issues |-> FlatlineIssues(ShChannel(1, nullReadings),
                                       ShOverrideConfig, 1800)]>>
    /\ UNCHANGED <<nullReadings, nullProfile, nullSpikeBaseline, notNullVars>>

NullNext == BuildBaselineProfile \/ BuildSpikeBaseline \/ FlatlineCheck

SpecNullPower == NullInit /\ [][NullNext]_vars

\* the readings that carry a power
WithPower(readings) == SelectSeq(readings, LAMBDA r : r.P # <<>>)

\* C13: a reading whose power is None is excluded, never taken as 0 kW:
\* each profiler returns what it returns on the series without such
\* readings (they add nothing to a bucket's count, mean, quartiles or
\* percentile), and the flatline check cuts its rolling windows from the
\* powers of the other readings only.
C13_NullPowerIsExcluded ==
    /\ nullProfile # Unset =>
          nullProfile[1] =
              build_baseline_profile(WithPower(nullReadings), DefaultDetectConfig)
    /\ nullSpikeBaseline # Unset =>
          nullSpikeBaseline[1] = build_spike_baseline(WithPower(nullReadings))
    /\ nullFlatline # Unset =>
          /\ nullFlatline[1].power_readings =
                 PowerReadings(WithPower(nullReadings))
          /\ Len(nullFlatline[1].issues) =
                 Len(FlatlineIssues(ShChannel(1, WithPower(nullReadings)),
                                    ShOverrideConfig, 1800))


\* the issues of a returned result that are not of type stale_data
NotStale(result) == SelectSeq(result.issues, LAMBDA i : i.type # "stale_data")

\* whether the result holds a stale_data issue of the given severity for
\* channel i
HasStale(result, i, severity) ==
    \E k \in 1..Len(result.issues) :
        /\ result.issues[k].type = "stale_data"
        /\ result.issues[k].channelId = i
        /\ result.issues[k].severity = severity

\* seconds from the last reading of channel i to `now`
SinceLast(i, now) ==
    now - shChannelsData[i].readings[Len(shChannelsData[i].readings)].ts.at

\* C14 as stated: two calls of analyze_sensor_health_for_site with the same
\* reading series, configuration and interval resolution have identical
\* outcomes, whenever they are made.
C14_Original_SameArgumentsSameResult ==
    (shFirst # Unset /\ shSecond # Unset) =>
        shFirst[1].outcome = shSecond[1].outcome

\* C14 (amended): the outcome of analyze_sensor_health_for_site is a
\* function of its arguments and of the wall-clock time of the call, and
\* the clock enters through the stale_data issues only.  Two calls with the
\* same arguments both raise the same exception or both return; when they
\* return, their issues other than stale_data are identical and in the
\* same order, and the results are identical when the clock reads the same.
\* A returned result holds a stale_data issue for a channel exactly when
\* the channel has readings and the clock is more than staleHours past the
\* last one (high when more than 24 hours, else low).
C14_SameArgumentsSameResultUpToStaleness ==
    /\ (shFirst # Unset /\ shSecond # Unset) =>
          /\ HasRaised(shFirst[1].outcome) <=> HasRaised(shSecond[1].outcome)
          /\ HasRaised(shFirst[1].outcome) =>
                shFirst[1].outcome = shSecond[1].outcome
          /\ ~HasRaised(shFirst[1].outcome) =>
                NotStale(shFirst[1].outcome.returns)
                    = NotStale(shSecond[1].outcome.returns)
          /\ shFirst[1].now = shSecond[1].now =>
                shFirst[1].outcome = shSecond[1].outcome
    /\ \A c \in ShCalls :
          ~HasRaised(c[1].outcome) =>
              \A i \in 1..Len(shChannelsData) :
                  LET stale ==
                          /\ Len(shChannelsData[i].readings) > 0
                          /\ SinceLast(i, c[1].now)
                                 > shConfig.sensorHealth.staleHours * 3600
                      old == stale /\ SinceLast(i, c[1].now) > 24 * 3600
                  IN  /\ HasStale(c[1].outcome.returns, i, "high") <=> old
                      /\ HasStale(c[1].outcome.returns, i, "low")
                             <=> (stale /\ ~old)
                      /\ ~HasStale(c[1].outcome.returns, i, "medium")

\* two calls with the same arguments, the second at a later time: the first
\* reads the clock exactly staleHours after the last reading of channel 1
\* and reports no stale data, the second reports it as high; both hold the
\* same issues of the other types
C14_Witness ==
    /\ shFirst # Unset /\ shSecond # Unset
    /\ shFirst[1].now < shSecond[1].now
    /\ ~HasRaised(shFirst[1].outcome) /\ ~HasRaised(shSecond[1].outcome)
    /\ Len(shChannelsData[1].readings) > 0
    /\ SinceLast(1, shFirst[1].now) = shConfig.sensorHealth.staleHours * 3600
    /\ ~HasStale(shFirst[1].outcome.returns, 1, "low")
    /\ ~HasStale(shFirst[1].outcome.returns, 1, "high")
    /\ HasStale(shSecond[1].outcome.returns, 1, "high")
    /\ shFirst[1].outcome # shSecond[1].outcome
    /\ NotStale(shFirst[1].outcome.returns) # <<>>

(***************************************************************************)
(* The five calls together                                                 *)
(*                                                                         *)
(* One process holds the arguments of the four site-level analysers and    *)
(* of generate_quick_wins and makes the calls in any order (the three      *)
(* baseline analysers in the order of the report pipeline).                *)
(***************************************************************************)

CallsInit ==
    /\ \/ \E r \in [1..2 -> SiteReportChoices] :
             /\ siteChannelsData = [i \in 1..2 |-> SiteChannel(i, r[i])]
             /\ siteBaselinesData = SiteBaselines(<<<<10>>, <<20>>>>, 1)
       \/ SiteCrowd
    /\ siteConfig \in {SiteDefaultConfig, SiteOverrideConfig}
    /\ siteIntervalSeconds = 1800
    /\ siteTotalChannelId = <<>>
    /\ siteAfterHours = Unset /\ siteAnomalies = Unset /\ siteSpikes = Unset
    /\ \E c \in {x \in ShOtherChannels(1) : x.readings[1].ts.form = "datetime"},
          d \in ShOtherChannels(2) :
          shChannelsData = <<c, d>>
    /\ shConfig = ShDefaultConfig
    /\ shIntervalSeconds = 900
    /\ clock = ShFirstReport + 8 * 3600
    /\ shFirst = Unset /\ shSecond = Unset
    /\ analytics \in
         {[afterHoursWaste |-> MkAfterHoursWaste(<<150, 20>>),
           sensorHealth |-> MkSensorHealth(i),
           anomalies |-> an,
           spikes |-> sp]
            : i \in {s \in IssueLists :
                         /\ Len(s) = 2
                         /\ s[1].type = "missing_data"
                         /\ s[2].severity = "low"},
              an \in {o \in AnomalyOutputs :
                         /\ o.totalAnomalyEvents = 1
                         /\ o.results[1].events[1].totalExcessKwh = 60},
              sp \in {o \in SpikeOutputs : o.topSpikes # <<>>}}
    /\ qwConfig \in {[quickWins |-> [maxCount |-> c, minWeeklyImpact |-> 10]]
                        : c \in {3, 6}}
    /\ quickWins = Unset
    /\ GrpIdle /\ DetIdle /\ AhIdle /\ NullIdle /\ McIdle /\ BpIdle

CallsNext == SiteNext \/ ShNext \/ QwNext

SpecCalls == CallsInit /\ [][CallsNext]_vars

ShResults == {c[1].outcome.returns : c \in {x \in ShCalls : ~HasRaised(x[1].outcome)}}

HasSeverity(result, severity) ==
    \E k \in 1..Len(result.issues) : result.issues[k].severity = severity

\* C16: in a result of analyze_sensor_health_for_site, highSeverity +
\* mediumSeverity + lowSeverity = totalIssues = the length of issues, every
\* issue is high, medium or low, and no issue comes before one of a more
\* severe class (high before medium before low).
C16_SeverityCountsAndOrder ==
    \A result \in ShResults :
        /\ result.highSeverity + result.mediumSeverity + result.lowSeverity
               = result.totalIssues
        /\ result.totalIssues = Len(result.issues)
        /\ \A k \in 1..Len(result.issues) :
              result.issues[k].severity \in {"high", "medium", "low"}
        /\ \A j, k \in 1..Len(result.issues) :
              j < k => SeverityRank(result.issues[j].severity)
                           <= SeverityRank(result.issues[k].severity)

\* a result with issues of the three classes which were not collected in
\* that order: channel 1 gave a medium issue before a high one
C16_Witness ==
    /\ shFirst # Unset
    /\ ~HasRaised(shFirst[1].outcome)
    /\ HasSeverity(shFirst[1].outcome.returns, "high")
    /\ HasSeverity(shFirst[1].outcome.returns, "medium")
    /\ HasSeverity(shFirst[1].outcome.returns, "low")
    /\ LET o == ShChannelOutcome(1, shFirst[1].now)
       IN  /\ Len(o.returns) >= 2
           /\ o.returns[1].severity = "medium"
           /\ o.returns[2].severity = "high"


\* the flatline issues of channel i in a result
FlatlinesOf(result, i) ==
    SelectSeq(result.issues,
              LAMBDA x : x.type = "flatline" /\ x.channelId = i)

\* the window of w powers that ends at reading k + w - 1 of channel i has
\* variance below the threshold and a mean above 0.1 kW
IsFlatWindow(i, k, w) ==
    LET window == [j \in 1..w |-> PowerOf(shChannelsData[i].readings[k + j - 1])]
        threshold == shConfig.sensorHealth.flatlineVarianceThreshold
    IN  /\ (w * SumSquares(window) - SumSeq(window) * SumSeq(window))
               * threshold.den < threshold.num * w * w
        /\ 10 * SumSeq(window) > w

\* the first readings of the flat windows of channel i
FlatWindows(i) ==
    LET w == (shConfig.sensorHealth.flatlineHours * 3600) \div shIntervalSeconds
        n == Len(shChannelsData[i].readings)
    IN  IF w = 0 THEN {} ELSE {k \in 1..(n - w + 1) : IsFlatWindow(i, k, w)}

\* C17: a result of analyze_sensor_health holds at most one flatline issue
\* per channel; it holds one exactly when some rolling window of
\* flatlineHours x 3600 / interval_seconds samples has variance below
\* flatlineVarianceThreshold and mean above 0.1, and the issue then spans
\* the earliest such window (medium severity), whatever later windows are.
C17_OneFlatlineAtEarliestWindow ==
    \A result \in ShResults :
        \A i \in 1..Len(shChannelsData) :
            LET w == (shConfig.sensorHealth.flatlineHours * 3600)
                         \div shIntervalSeconds
                found == FlatlinesOf(result, i)
            IN  /\ Len(found) <= 1
                /\ (Len(found) = 1) <=> (FlatWindows(i) # {})
                /\ Len(found) = 1 =>
                      LET k == CHOOSE x \in FlatWindows(i) :
                                   \A y \in FlatWindows(i) : x <= y
                      IN  /\ found[1].start = shChannelsData[i].readings[k].ts
                          /\ found[1].end =
                                 shChannelsData[i].readings[k + w - 1].ts
                          /\ found[1].severity = "medium"

\* a result with one flatline issue for a channel that has two flat
\* windows
C17_Witness ==
    \E result \in ShResults :
        /\ Len(FlatlinesOf(result, 1)) = 1
        /\ Cardinality(FlatWindows(1)) >= 2


ShTimestamps(i) ==
    [j \in 1..Len(shChannelsData[i].readings) |->
        shChannelsData[i].readings[j].ts]

\* seconds from reading j - 1 to reading j of channel i
Distance(i, j) ==
    shChannelsData[i].readings[j].ts.at - shChannelsData[i].readings[j - 1].ts.at

\* distance / expected rounded to the nearest whole number, a half to the
\* even neighbour, minus one
MissingIntervals(i, j) ==
    LET d == Distance(i, j)
        e == shIntervalSeconds
        off(r) == IF d >= r * e THEN d - r * e ELSE r * e - d
    IN  (CHOOSE r \in 0..(d \div e + 1) :
            2 * off(r) < e \/ (2 * off(r) = e /\ r % 2 = 0)) - 1

\* the readings of channel i that end a distance of more than 1.1 x expected
GapEnds(i) ==
    {j \in 2..Len(shChannelsData[i].readings) :
        10 * Distance(i, j) > 11 * shIntervalSeconds}

\* find_gaps does not take the timestamps of channel i: two or more, some
\* of them numbers
NotTaken(i) ==
    /\ Len(shChannelsData[i].readings) >= 2
    /\ \E j \in 1..Len(shChannelsData[i].readings) :
          shChannelsData[i].readings[j].ts.form = "epoch"

\* find_gaps on channel i returns one gap for each member of GapEnds(i),
\* in order, with missingIntervals = round(distance / expected) - 1
GapsAreThoseOver110Percent(i) ==
    LET o == find_gaps(ShTimestamps(i), shIntervalSeconds)
    IN  /\ ~HasRaised(o)
        /\ Len(o.returns) = Cardinality(GapEnds(i))
        /\ \A k \in 1..Len(o.returns) :
              \E j \in GapEnds(i) :
                  /\ Cardinality({x \in GapEnds(i) : x < j}) = k - 1
                  /\ o.returns[k].start = shChannelsData[i].readings[j - 1].ts
                  /\ o.returns[k].end = shChannelsData[i].readings[j].ts
                  /\ o.returns[k].missingIntervals = MissingIntervals(i, j)

\* the missing_data issues of channel i in a result, as a set
MissingDataOf(result, i) ==
    {[start |-> result.issues[k].start, end |-> result.issues[k].end,
      missingIntervals |-> result.issues[k].missingIntervals,
      severity |-> result.issues[k].severity] :
        k \in {x \in 1..Len(result.issues) :
                  /\ result.issues[x].type = "missing_data"
                  /\ result.issues[x].channelId = i}}

\* a result holds one missing_data issue for each gap of channel i with
\* missingIntervals >= gapMultiplier and no other, high iff
\* missingIntervals > 10, else medium
IssuesAreTheGapsAtMultiplier(result, i) ==
    LET issued == {j \in GapEnds(i) :
                      MissingIntervals(i, j)
                          >= shConfig.sensorHealth.gapMultiplier}
    IN  /\ MissingDataOf(result, i) =
               {[start |-> shChannelsData[i].readings[j - 1].ts,
                 end |-> shChannelsData[i].readings[j].ts,
                 missingIntervals |-> MissingIntervals(i, j),
                 severity |-> IF MissingIntervals(i, j) > 10
                              THEN "high" ELSE "medium"] : j \in issued}
        /\ Len(SelectSeq(result.issues,
                         LAMBDA x : x.type = "missing_data" /\ x.channelId = i))
               = Cardinality(issued)

\* C18 as stated: for any timestamp sequence find_gaps reports the gaps
\* over 1.1 x expected, and analyze_sensor_health emits the missing_data
\* issues of those with missingIntervals >= gapMultiplier.
C18_Original_AnyTimestampSequence ==
    \A c \in ShCalls :
        /\ ~HasRaised(c[1].outcome)
        /\ \A i \in 1..Len(shChannelsData) :
              /\ GapsAreThoseOver110Percent(i)
              /\ IssuesAreTheGapsAtMultiplier(c[1].outcome.returns, i)

\* C18 (amended): for a sequence of datetime objects or ISO strings, and
\* for any sequence of fewer than two timestamps, find_gaps reports a gap
\* between two successive timestamps exactly when their distance exceeds
\* 1.1 x expected, with missingIntervals = round(distance / expected) - 1
\* (a half rounds to the even neighbour; 3 hours at 900 s gives 11), and
\* analyze_sensor_health emits one missing_data issue for each reported gap
\* with missingIntervals >= gapMultiplier and for no other, high iff
\* missingIntervals > 10, else medium.  For two or more timestamps of which
\* one is a number of Unix seconds, find_gaps raises, and so do
\* analyze_sensor_health and analyze_sensor_health_for_site.
C18_GapsOfDatetimeSequences ==
    \A c \in ShCalls :
        /\ HasRaised(c[1].outcome)
              <=> \E i \in 1..Len(shChannelsData) : NotTaken(i)
        /\ \A i \in 1..Len(shChannelsData) :
              IF NotTaken(i)
              THEN HasRaised(find_gaps(ShTimestamps(i), shIntervalSeconds))
              ELSE /\ GapsAreThoseOver110Percent(i)
                   /\ ~HasRaised(c[1].outcome) =>
                         IssuesAreTheGapsAtMultiplier(c[1].outcome.returns, i)

\* at 900 s a channel whose readings are 10800 s and 2250 s apart: the
\* first gap misses 11 intervals and is a high issue, the second misses
\* round(2.5) - 1 = 1 and is below the default gapMultiplier of 2
C18_Witness ==
    \E result \in ShResults :
        /\ shIntervalSeconds = 900
        /\ shConfig.sensorHealth.gapMultiplier = 2
        /\ Len(shChannelsData[1].readings) = 3
        /\ Distance(1, 2) = 10800
        /\ Distance(1, 3) = 2250
        /\ MissingDataOf(result, 1) =
               {[start |-> shChannelsData[1].readings[1].ts,
                 end |-> shChannelsData[1].readings[2].ts,
                 missingIntervals |-> 11, severity |-> "high"]}
        /\ Len(find_gaps(ShTimestamps(1), 900).returns) = 2


\* the low_completeness issues of channel i in a result
LowCompletenessOf(result, i) ==
    SelectSeq(result.issues,
              LAMBDA x : x.type = "low_completeness" /\ x.channelId = i)

\* the expected count of channel i: the caller's, or else the actual count
ExpectedCount(i) ==
    IF "expectedIntervals" \in DOMAIN shChannelsData[i]
    THEN shChannelsData[i].expectedIntervals
    ELSE Len(shChannelsData[i].readings)

\* actual / expected x 100 is below the percentage pct; 0 when nothing is
\* expected
CompletenessBelow(i, pct) ==
    IF ExpectedCount(i) = 0 THEN 0 < pct
    ELSE Len(shChannelsData[i].readings) * 100 < pct * ExpectedCount(i)

\* C19: a result of analyze_sensor_health holds exactly one low_completeness
\* issue for a channel whose completeness = actual / expected x 100 (0 when
\* expected is 0; expected is the channel's expectedIntervals, or the
\* actual count when it has none) is strictly below 100 -
\* missingThresholdPct, and none otherwise; the issue is high iff
\* completeness < 50, else medium.
C19_LowCompletenessIssue ==
    \A result \in ShResults :
        \A i \in 1..Len(shChannelsData) :
            LET found == LowCompletenessOf(result, i)
            IN  IF CompletenessBelow(
                       i, 100 - shConfig.sensorHealth.missingThresholdPct)
                THEN /\ Len(found) = 1
                     /\ found[1].severity =
                            IF CompletenessBelow(i, 50) THEN "high" ELSE "medium"
                     /\ found[1].missingCount =
                            ExpectedCount(i) - Len(shChannelsData[i].readings)
                ELSE Len(found) = 0

\* two of four expected readings arrived: completeness is exactly 50, below
\* the limit of 90 but not below 50, so the issue is medium
C19_Witness ==
    \E result \in ShResults :
        /\ "expectedIntervals" \in DOMAIN shChannelsData[1]
        /\ shChannelsData[1].expectedIntervals = 4
        /\ Len(shChannelsData[1].readings) = 2
        /\ shConfig.sensorHealth.missingThresholdPct = 10
        /\ Len(LowCompletenessOf(result, 1)) = 1
        /\ LowCompletenessOf(result, 1)[1].severity = "medium"

(***************************************************************************)
(* Configuration merge: config/report_config.py                            *)
(*                                                                         *)
(* A dictionary is a function from keys to values.  A value is tagged with *)
(* what isinstance(value, dict) answers: Dict(items) is a dictionary,      *)
(* Leaf(v) anything else (a number, a string, a list, None), held as the   *)
(* text v.                                                                 *)
(***************************************************************************)

Leaf(v) == [kind |-> "value", v |-> v, items |-> <<>>]

Dict(items) == [kind |-> "dict", v |-> "", items |-> items]

IsDict(value) == value.kind = "dict"

\* report_config.py:13-88, abridged to three keys: a string, a dictionary
\* of numbers, and a dictionary that holds a dictionary and a None
DEFAULT_CONFIG ==
    [key \in {"timezone", "sensorHealth", "businessHours"} |->
        CASE key = "timezone" -> Leaf("America/New_York")
          [] key = "sensorHealth" ->
                Dict([k \in {"gapMultiplier", "staleHours"} |-> Leaf("2")])
          [] key = "businessHours" ->
                Dict([k \in {"monday", "saturday"} |->
                        IF k = "monday"
                        THEN Dict([s \in {"start", "end"} |->
                                      IF s = "start" THEN Leaf("7")
                                      ELSE Leaf("18")])
                        ELSE Leaf("None")])]

\* {**a, **b}
DictMerge(a, b) ==
    [k \in DOMAIN a \cup DOMAIN b |-> IF k \in DOMAIN b THEN b[k] ELSE a[k]]

\* an assignment of the user's value whatever the default is
MergeValue_Replace(config, key, value) == value

\* report_config.py:108-112: what config[key] is set to
MergeValue(config, key, value) ==
    IF key \in DOMAIN config /\ IsDict(config[key]) /\ IsDict(value)
    THEN Dict(DictMerge(config[key].items, value.items))
    ELSE value

\* report_config.py:91-114; user_config is <<>> for None.  The loop sets
\* each key of user_config once, from the default of that key.
merge_config(user_config) ==
    LET user == IF user_config = <<>> THEN <<>> ELSE user_config[1]
    IN  [key \in DOMAIN DEFAULT_CONFIG \cup DOMAIN user |->
            IF key \in DOMAIN user
            THEN MergeValue(DEFAULT_CONFIG, key, user[key])
            ELSE DEFAULT_CONFIG[key]]

UserKeys == {"timezone", "sensorHealth", "businessHours", "custom"}

UserValueChoices ==
    { Leaf("UTC"), Leaf("None"), Dict(<<>>),
      Dict([k \in {"staleHours", "extra"} |->
               IF k = "staleHours" THEN Leaf("8") ELSE Leaf("5")]),
      Dict([k \in {"monday"} |-> Dict([s \in {"start"} |-> Leaf("8")])]) }

McInit ==
    /\ \/ mcUserConfig = <<>>
       \/ \E keys \in SUBSET UserKeys :
             \E user \in [keys -> UserValueChoices] : mcUserConfig = <<user>>
    /\ mcConfig = Unset
    /\ NotMcIdle

\* config = merge_config(user_config)
MergeConfig ==
    /\ mcConfig = Unset
    /\ mcConfig' = <<merge_config(mcUserConfig)>>
    /\ UNCHANGED <<mcUserConfig, notMcVars>>

McNext == MergeConfig

SpecMerge == McInit /\ [][McNext]_vars

\* the user's dictionary of a call, empty for None
McUser == IF mcUserConfig = <<>> THEN <<>> ELSE mcUserConfig[1]

\* C20: the result of merge_config(user) has the keys of the defaults and
\* of user.  For a key whose default and user values are both dictionaries
\* it holds a dictionary with every sub-key of either, valued by user where
\* user has the sub-key and by the default otherwise (a sub-value is taken
\* whole, never merged further); for any other key of user it holds the
\* user value; for a key absent from user it holds the default; and
\* merge_config(None) is the defaults.
C20_MergeOneLevelDeep ==
    mcConfig # Unset =>
        /\ DOMAIN mcConfig[1] = DOMAIN DEFAULT_CONFIG \cup DOMAIN McUser
        /\ \A key \in DOMAIN McUser :
              IF /\ key \in DOMAIN DEFAULT_CONFIG
                 /\ IsDict(DEFAULT_CONFIG[key])
                 /\ IsDict(McUser[key])
              THEN /\ IsDict(mcConfig[1][key])
                   /\ DOMAIN mcConfig[1][key].items =
                          DOMAIN DEFAULT_CONFIG[key].items
                              \cup DOMAIN McUser[key].items
                   /\ \A sub \in DOMAIN McUser[key].items :
                          mcConfig[1][key].items[sub] = McUser[key].items[sub]
                   /\ \A sub \in DOMAIN DEFAULT_CONFIG[key].items
                                     \ DOMAIN McUser[key].items :
                          mcConfig[1][key].items[sub]
                              = DEFAULT_CONFIG[key].items[sub]
              ELSE mcConfig[1][key] = McUser[key]
        /\ \A key \in DOMAIN DEFAULT_CONFIG \ DOMAIN McUser :
              mcConfig[1][key] = DEFAULT_CONFIG[key]
        /\ mcUserConfig = <<>> => mcConfig[1] = DEFAULT_CONFIG

\* a merge of a user dictionary that overrides one sub-key of sensorHealth
\* and adds another, replaces the monday entry of businessHours by a
\* dictionary with fewer keys, replaces nothing of timezone and brings an
\* unknown key
C20_Witness ==
    /\ mcConfig # Unset
    /\ DOMAIN McUser = {"sensorHealth", "businessHours", "custom"}
    /\ IsDict(McUser["sensorHealth"])
    /\ DOMAIN McUser["sensorHealth"].items = {"staleHours", "extra"}
    /\ IsDict(McUser["businessHours"])
    /\ DOMAIN McUser["businessHours"].items = {"monday"}
    /\ mcConfig[1]["sensorHealth"].items["staleHours"] = Leaf("8")
    /\ mcConfig[1]["sensorHealth"].items["gapMultiplier"] = Leaf("2")
    /\ mcConfig[1]["sensorHealth"].items["extra"] = Leaf("5")
    /\ DOMAIN mcConfig[1]["businessHours"].items["monday"].items = {"start"}
    /\ mcConfig[1]["businessHours"].items["saturday"] = Leaf("None")
    /\ mcConfig[1]["timezone"] = DEFAULT_CONFIG["timezone"]
    /\ mcConfig[1]["custom"] = Leaf("UTC")


(***************************************************************************)
(* Claims about the categories of quick wins (checked under SpecQuickWins) *)
(***************************************************************************)

\* the block of generate_quick_wins (1..6) a win comes from
CategoryOf(win) ==
    CASE win.type = "after_hours_waste" -> 1
      [] win.type = "sensor_health" /\ win.priority = "high" -> 2
      [] win.type = "anomaly" -> 3
      [] win.type = "spike" -> 4
      [] win.type = "sensor_health" /\ win.priority = "low" -> 5
      [] win.type = "summary" -> 6

CategoryCount(list, c) ==
    Cardinality({i \in 1..Len(list) : CategoryOf(list[i]) = c})

InGenerationOrder(list) ==
    \A i \in 1..(Len(list) - 1) :
        CategoryOf(list[i]) <= CategoryOf(list[i + 1])

\* the meters of topMeters[:3] whose excess reaches minWeeklyImpact
MaterialMeters ==
    {i \in 1..Min2(3, Len(analytics.afterHoursWaste.topMeters)) :
        analytics.afterHoursWaste.topMeters[i].excessKwh
            >= qwConfig.quickWins.minWeeklyImpact}

\* C21 as stated: generate_quick_wins emits at most one recommendation for
\* each of its six categories, in generation order, for any detector
\* outputs.
C21_Original_AtMostOnePerCategory ==
    QwReturned =>
        /\ InGenerationOrder(QwCollected)
        /\ \A c \in 1..6 : CategoryCount(QwCollected, c) <= 1
        /\ \A c \in 1..6 : CategoryCount(QwResult, c) <= 1

\* C21: generate_quick_wins emits one after-hours-waste recommendation for
\* each of the first three topMeters whose excess reaches
\* quickWins.minWeeklyImpact (so at most three), and at most one
\* recommendation for each of the other five categories; the wins are
\* built in the order of the six categories, and the returned list holds
\* no more of a category than were built.
C21_ThreeAfterHoursOneOfEachOther ==
    QwReturned =>
        /\ InGenerationOrder(QwCollected)
        /\ CategoryCount(QwCollected, 1) = Cardinality(MaterialMeters)
        /\ CategoryCount(QwCollected, 1) <= 3
        /\ \A c \in 2..6 : CategoryCount(QwCollected, c) <= 1
        /\ \A c \in 1..6 :
              CategoryCount(QwResult, c) <= CategoryCount(QwCollected, c)

\* C21 witness: a call with four topMeters that all reach minWeeklyImpact
\* built three after-hours wins and one win of each other category, and
\* returned two after-hours wins.
C21_Witness ==
    /\ QwReturned
    /\ Len(analytics.afterHoursWaste.topMeters) = 4
    /\ \A i \in 1..4 : analytics.afterHoursWaste.topMeters[i].excessKwh
                          >= qwConfig.quickWins.minWeeklyImpact
    /\ CategoryCount(QwCollected, 1) = 3
    /\ \A c \in 2..6 : CategoryCount(QwCollected, c) = 1
    /\ CategoryCount(QwResult, 1) = 2


(***************************************************************************)
(* Claims about degenerate input to the after-hours calculator (checked    *)
(* under SpecAfterHours)                                                   *)
(***************************************************************************)

\* the baseline series looked up for channel i
AhBaselineOf(i) == FindBaseline(ahBaselinesData, AhChannel(i).channelId)

\* channel i is calculated (its baseline has readings), yet the list handed
\* to non_zero_percentile is empty: no baseline reading is after hours with
\* a power above minPowerThreshold
AhDegenerateBaseline(i) ==
    /\ ~HasNoBaseline(AhBaselineOf(i))
    /\ BaselineAfterHoursPower(AhBaselineOf(i)[1].readings, ahConfig) = <<>>

\* C22: when the list a detector hands to the statistics kernel is empty so
\* that the kernel returns its neutral value (a baseline with no
\* after-hours reading above minPowerThreshold, giving a baseline
\* percentile of 0), the detector flags nothing for that channel: no
\* excess energy, no excess interval, no significant channel.  Stated for
\* the configurations with a positive afterHours.minExcessKwh.
C22_DegenerateBaselineFlagsNothing ==
    (AfterHoursAnalyzed /\ ahConfig.afterHours.minExcessKwh > 0) =>
        \A i \in 1..Len(ahChannelsData) :
            AhDegenerateBaseline(i) =>
                LET result == AhResultOf(AhChannel(i).channelId)[1]
                IN  /\ result.baseline.kw = 0
                    /\ result.impact.excessKwh = 0
                    /\ result.excessIntervals = <<>>
                    /\ ~result.isSignificant
                    /\ ~AhListed(ahAnalysis[1].allMeters,
                                 AhChannel(i).channelId)


(***************************************************************************)
(* Claims about the events of a site run (checked under SpecSite)          *)
(***************************************************************************)

\* the report channel and the baseline series of a channel id
SiteChannelOf(id) ==
    SelectSeq(siteChannelsData, LAMBDA c : c.channelId = id)[1]

SiteBaselineOf(id) == FindBaseline(siteBaselinesData, id)[1]

\* the timestamps of the channel's report readings that detect_spikes and
\* detect_anomalies flag
SiteSpikeTimes(id) ==
    LET found == SpikesOf(SiteChannelOf(id), SiteBaselineOf(id), siteConfig,
                          siteIntervalSeconds, <<id>> = siteTotalChannelId)
    IN  {found[k].ts : k \in 1..Len(found)}

SiteAnomalyTimes(id) ==
    LET found == AnomalousOf(SiteChannelOf(id), SiteBaselineOf(id),
                             siteConfig, siteIntervalSeconds)
    IN  {found[k].ts : k \in 1..Len(found)}

SiteReadingTimes(id) ==
    {SiteChannelOf(id).readings[k].ts : k \in 1..Len(SiteChannelOf(id).readings)}

\* the timestamps of a set that lie in [start, end] of an event
Within(times, e) == {t \in times : e.start <= t /\ t <= e.end}

\* a reading of the channel that was not flagged lies strictly between the
\* start and the end of the event
UnflaggedInside(id, flaggedTimes, e) ==
    \E t \in SiteReadingTimes(id) \ flaggedTimes : e.start < t /\ t < e.end

\* t and u are successive in a set of timestamps
Successive(times, t, u) ==
    t < u /\ ~\E v \in times : t < v /\ v < u

\* the event is a run of flagged readings: it starts and ends at a flagged
\* reading, holds `count` readings, which are all the flagged readings
\* between its start and its end, and successive ones are `close`
IsFlaggedRun(e, flaggedTimes, count, close(_)) ==
    /\ e.start \in flaggedTimes /\ e.end \in flaggedTimes
    /\ e.start <= e.end
    /\ count = Cardinality(Within(flaggedTimes, e))
    /\ \A t, u \in Within(flaggedTimes, e) :
          Successive(flaggedTimes, t, u) => close(u - t)

SiteEventsRun == siteAnomalies # Unset /\ siteSpikes # Unset

\* C23 as stated: every spike or anomaly event is a run of consecutive
\* flagged readings of the channel's report series: no reading of the same
\* channel that was not flagged has a timestamp strictly between the
\* event's start and end.
C23_Original_NoUnflaggedReadingInside ==
    SiteEventsRun =>
        /\ \A i \in 1..Len(siteSpikes[1].results) :
              LET r == siteSpikes[1].results[i]
              IN  \A k \in 1..Len(r.events) :
                      ~UnflaggedInside(r.channelId,
                                       SiteSpikeTimes(r.channelId), r.events[k])
        /\ \A i \in 1..Len(siteAnomalies[1].results) :
              LET r == siteAnomalies[1].results[i]
              IN  \A k \in 1..Len(r.events) :
                      ~UnflaggedInside(r.channelId,
                                       SiteAnomalyTimes(r.channelId), r.events[k])

\* C23: every spike or anomaly event is a run of successive flagged
\* readings of the channel's report series: it starts and ends at a flagged
\* reading, it holds every flagged reading of the channel between its start
\* and its end, and two successive flagged readings of it are at most
\* 2 x intervalSeconds apart (spikes) or less than 7200 s apart
\* (anomalies).  Readings that were not flagged may lie in between.
C23_EventsAreRunsOfFlaggedReadings ==
    SiteEventsRun =>
        /\ \A i \in 1..Len(siteSpikes[1].results) :
              LET r == siteSpikes[1].results[i]
              IN  \A k \in 1..Len(r.events) :
                      IsFlaggedRun(r.events[k], SiteSpikeTimes(r.channelId),
                                   r.events[k].intervals,
                                   LAMBDA gap : gap <= 2 * siteIntervalSeconds)
        /\ \A i \in 1..Len(siteAnomalies[1].results) :
              LET r == siteAnomalies[1].results[i]
              IN  \A k \in 1..Len(r.events) :
                      IsFlaggedRun(r.events[k], SiteAnomalyTimes(r.channelId),
                                   r.events[k].duration[1],
                                   LAMBDA gap : gap < 7200)

\* C23 witness: a channel whose second reading was flagged by neither
\* detector has a spike event and an anomaly event that start at its first
\* reading and end at its third, and another channel has an event of three
\* flagged readings.
C23_Witness ==
    /\ SiteEventsRun
    /\ \E i \in 1..Len(siteSpikes[1].results) :
          LET r == siteSpikes[1].results[i]
          IN  \E k \in 1..Len(r.events) :
                  /\ UnflaggedInside(r.channelId, SiteSpikeTimes(r.channelId),
                                     r.events[k])
                  /\ r.events[k].intervals = 2
    /\ \E i \in 1..Len(siteAnomalies[1].results) :
          LET r == siteAnomalies[1].results[i]
          IN  \E k \in 1..Len(r.events) :
                  /\ UnflaggedInside(r.channelId, SiteAnomalyTimes(r.channelId),
                                     r.events[k])
                  /\ r.events[k].duration[1] = 2
    /\ \E i \in 1..Len(siteSpikes[1].results) :
          \E k \in 1..Len(siteSpikes[1].results[i].events) :
              siteSpikes[1].results[i].events[k].intervals = 3


\* the readings detect_anomalies flags for the channel
SiteAnomalous(id) ==
    AnomalousOf(SiteChannelOf(id), SiteBaselineOf(id), siteConfig,
                siteIntervalSeconds)

\* [s, e] is a grouped anomaly event of the channel: a run of flagged
\* readings less than 7200 s apart that no flagged reading before s or
\* after e continues
IsGroupedRun(id, s, e) ==
    LET times == SiteAnomalyTimes(id)
    IN  /\ s \in times /\ e \in times /\ s <= e
        /\ \A t, u \in times :
              (s <= t /\ u <= e /\ Successive(times, t, u)) => u - t < 7200
        /\ \A t \in times : Successive(times, t, s) => s - t >= 7200
        /\ \A u \in times : Successive(times, e, u) => u - e >= 7200

RunReadings(id, s, e) ==
    SelectSeq(SiteAnomalous(id), LAMBDA r : s <= r.ts /\ r.ts <= e)

RunExcess(id, s, e) ==
    SumSeq([k \in 1..Len(RunReadings(id, s, e)) |->
               RunReadings(id, s, e)[k].excessKwh])

\* the grouped events of the channel that have at least
\* anomaly.minConsecutiveIntervals readings and a totalExcessKwh of at
\* least anomaly.minExcessKwh (kWh, against centi-kW-seconds)
KeptRuns(id) ==
    {se \in SiteReadingTimes(id) \X SiteReadingTimes(id) :
        /\ IsGroupedRun(id, se[1], se[2])
        /\ Len(RunReadings(id, se[1], se[2]))
               >= siteConfig.anomaly.minConsecutiveIntervals
        /\ RunExcess(id, se[1], se[2])
               >= siteConfig.anomaly.minExcessKwh * 360000}

GroupedRuns(id) ==
    {se \in SiteReadingTimes(id) \X SiteReadingTimes(id) :
        IsGroupedRun(id, se[1], se[2])}

\* the result analyze_anomalies lists for the channel, <<>> if none
SiteAnomalyResultOf(id) ==
    SelectSeq(siteAnomalies[1].results, LAMBDA r : r.channelId = id)

\* C24: the events returned by detect_anomalies for a channel are exactly
\* the grouped events that have at least anomaly.minConsecutiveIntervals
\* readings and totalExcessKwh >= anomaly.minExcessKwh, the last one of the
\* series included, each once and in time order; analyze_anomalies lists a
\* channel (once) exactly when it has at least one such event.
C24_KeptEventsAreThoseMeetingBothMinimums ==
    siteAnomalies # Unset =>
        \A i \in 1..Len(siteChannelsData) :
            LET id == siteChannelsData[i].channelId
                listed == SiteAnomalyResultOf(id)
            IN  IF SiteNoBaseline(siteChannelsData[i]) THEN listed = <<>>
                ELSE /\ Len(listed) <= 1
                     /\ listed = <<>> <=> KeptRuns(id) = {}
                     /\ listed # <<>> =>
                           LET events == listed[1].events
                           IN  /\ {<<events[k].start, events[k].end>> :
                                      k \in 1..Len(events)} = KeptRuns(id)
                               /\ Len(events) = Cardinality(KeptRuns(id))
                               /\ listed[1].anomalyCount = Len(events)
                               /\ \A k \in 1..Len(events) :
                                     /\ events[k].totalExcessKwh =
                                           RunExcess(id, events[k].start,
                                                     events[k].end)
                                     /\ events[k].duration[1] =
                                           Len(RunReadings(id, events[k].start,
                                                           events[k].end))
                               /\ \A k \in 1..(Len(events) - 1) :
                                     events[k].end < events[k + 1].start

\* C24 witness: analyze_anomalies has run on a site whose first channel has
\* two grouped events; the first has enough readings but too little excess
\* and is not returned, the last one of the series meets both minimums and
\* is the one event returned.
C24_Witness ==
    /\ siteAnomalies # Unset
    /\ ~SiteNoBaseline(siteChannelsData[1])
    /\ Cardinality(GroupedRuns(1)) = 2
    /\ Cardinality(KeptRuns(1)) = 1
    /\ \E se \in KeptRuns(1) :
          /\ \A other \in GroupedRuns(1) : other[2] <= se[2]
          /\ \E other \in GroupedRuns(1) \ KeptRuns(1) :
                /\ Len(RunReadings(1, other[1], other[2]))
                       >= siteConfig.anomaly.minConsecutiveIntervals
                /\ RunExcess(1, other[1], other[2])
                       < siteConfig.anomaly.minExcessKwh * 360000
    /\ SiteAnomalyResultOf(1) # <<>>
    /\ Len(SiteAnomalyResultOf(1)[1].events) = 1


(***************************************************************************)
(* Claims about the lists of analyze_after_hours_waste (checked under      *)
(* SpecAfterHours)                                                         *)
(***************************************************************************)

\* the channels whose baseline series has readings and whose total
\* after-hours excess reaches afterHours.minExcessKwh (kWh, against
\* centi-kW-seconds)
AhSignificantChannels ==
    {i \in 1..Len(ahChannelsData) :
        /\ ~HasNoBaseline(AhBaselineOf(i))
        /\ AhResultOf(AhChannel(i).channelId)[1].impact.excessKwh
               >= ahConfig.afterHours.minExcessKwh * 360000}

\* C25: in the result of analyze_after_hours_waste, allMeters holds exactly
\* the channels with a non-empty baseline whose total after-hours excess is
\* >= afterHours.minExcessKwh, each once with the result calculated for
\* it, ordered by non-increasing excessKwh, and topMeters is the first
\* min(10, length) entries of allMeters in the same order.
C25_AllMetersSignificantSortedTopTen ==
    AfterHoursAnalyzed =>
        LET allMeters == ahAnalysis[1].allMeters
            topMeters == ahAnalysis[1].topMeters
        IN  /\ {allMeters[k].channelId : k \in 1..Len(allMeters)}
                  = {AhChannel(i).channelId : i \in AhSignificantChannels}
            /\ Len(allMeters) = Cardinality(AhSignificantChannels)
            /\ \A k \in 1..Len(allMeters) :
                  AhResultOf(allMeters[k].channelId) = <<allMeters[k]>>
            /\ \A k \in 1..(Len(allMeters) - 1) :
                  allMeters[k].impact.excessKwh
                      >= allMeters[k + 1].impact.excessKwh
            /\ Len(topMeters) = Min2(10, Len(allMeters))
            /\ \A k \in 1..Len(topMeters) : topMeters[k] = allMeters[k]

\* C25 witness: thirteen channels were analysed, one was skipped for want
\* of baseline readings, one has too little excess, more than ten are
\* significant with different excess, given in an order that is not the
\* sorted one, and topMeters holds ten of them.
C25_Witness ==
    /\ AfterHoursAnalyzed
    /\ Len(ahChannelsData) = 13
    /\ \E i \in 1..13 : HasNoBaseline(AhBaselineOf(i))
    /\ \E i \in 1..13 :
          /\ ~HasNoBaseline(AhBaselineOf(i))
          /\ i \notin AhSignificantChannels
    /\ \E i, j \in AhSignificantChannels :
          /\ i < j
          /\ AhResultOf(i)[1].impact.excessKwh < AhResultOf(j)[1].impact.excessKwh
    /\ Len(ahAnalysis[1].allMeters) > 10
    /\ Len(ahAnalysis[1].topMeters) = 10


(***************************************************************************)
(* Claims about the top spike and the top anomaly (checked under           *)
(* SpecCalls)                                                              *)
(***************************************************************************)

\* the events detect_spikes keeps for each channel that has baseline
\* readings, each as <<channelName, start, end, peakPower>>
SiteKeptSpikes ==
    UNION { LET c == siteChannelsData[i]
                r == detect_spikes(c, SiteBaselineOf(c.channelId), siteConfig,
                                   siteIntervalSeconds,
                                   <<c.channelId>> = siteTotalChannelId)
            IN  {<<r.channelName, r.events[k].start, r.events[k].end,
                   r.events[k].peakPower>> : k \in 1..Len(r.events)}
            : i \in {j \in 1..Len(siteChannelsData) :
                        ~SiteNoBaseline(siteChannelsData[j])} }

TopSpikeKey(s) == <<s.channelName, s.start, s.end, s.peakPower>>

\* the wins of a category among the wins built, and among those returned
QwBuilt(c) == SelectSeq(QwCollected, LAMBDA w : CategoryOf(w) = c)

QwKept(c) == SelectSeq(QwResult, LAMBDA w : CategoryOf(w) = c)

TopEventKwh(result) ==
    MaxSeq([k \in 1..Len(result.events) |-> result.events[k].totalExcessKwh])

\* C27 (checked under SpecQuickWins): when the analyze_anomalies output
\* holds at least one event, generate_quick_wins builds one anomaly
\* recommendation, for the channel with the greatest total anomaly excess
\* (the first of results), and its priority is high iff the largest
\* totalExcessKwh among that channel's events is > 50, else medium.
C27_AnomalyWinPriorityFromTopEvent ==
    (QwReturned /\ analytics.anomalies.totalAnomalyEvents > 0) =>
        LET top_anomaly == analytics.anomalies.results[1]
        IN  /\ Len(QwBuilt(3)) = 1
            /\ QwBuilt(3)[1].channelName = top_anomaly.channelName
            /\ QwBuilt(3)[1].priority =
                  IF TopEventKwh(top_anomaly) > 50 THEN "high" ELSE "medium"


(***************************************************************************)
(* The baseline period: lib/date_utils.py:51-76                            *)
(*                                                                         *)
(* A datetime is held by its calendar fields: the day (a count of calendar *)
(* days), the second of the day (hour, minute and second together) and     *)
(* the microsecond.  Subtracting a timedelta of whole days moves the day   *)
(* and leaves the time of day; replace() sets the time of day and leaves   *)
(* the day.  Both keep the tzinfo of report_start, so datetimes compare by *)
(* their fields.                                                           *)
(***************************************************************************)

\* date - timedelta(days=n)
MinusDays(date, n) == [date EXCEPT !.day = @ - n]

\* date.replace(hour=h, minute=m, second=s, microsecond=us)
ReplaceTime(date, h, m, s, us) ==
    [date EXCEPT !.second = h * 3600 + m * 60 + s, !.microsecond = us]

\* a < b on datetimes
DateBefore(a, b) ==
    \/ a.day < b.day
    \/ a.day = b.day /\ a.second < b.second
    \/ a.day = b.day /\ a.second = b.second /\ a.microsecond < b.microsecond

\* a span of weeks_count whole weeks back from the end's own day
BaselineSpanDays_WholeWeeks(weeks_count) == weeks_count * 7

\* date_utils.py:70: timedelta(days=weeks_count * 7 - 1)
BaselineSpanDays(weeks_count) == weeks_count * 7 - 1

\* date_utils.py:51-76
get_baseline_period(report_start, weeks_count) ==
    LET baseline_end ==
            ReplaceTime(MinusDays(report_start, 1), 23, 59, 59, 0)
        baseline_start ==
            ReplaceTime(MinusDays(baseline_end, BaselineSpanDays(weeks_count)),
                        0, 0, 0, 0)
    IN  [start |-> baseline_start, end |-> baseline_end]

(* report_start is any instant of a few days: midnight (the start of a     *)
(* report week, generate_weekly_report.py:295), the first and last second  *)
(* of a day and noon, with and without microseconds.                       *)

MaxWeeksCount == 4

BpDayChoices == {0, 1, 7}

BpSecondChoices == {0, 1, 43200, 86399}

BpMicrosecondChoices == {0, 500000}

BpInit ==
    /\ bpReportStart \in
          {[day |-> d, second |-> s, microsecond |-> us] :
              d \in BpDayChoices, s \in BpSecondChoices,
              us \in BpMicrosecondChoices}
    /\ bpWeeksCount \in 1..MaxWeeksCount
    /\ bpPeriod = Unset
    /\ NotBpIdle

\* generate_weekly_report.py:295
GetBaselinePeriod ==
    /\ bpPeriod = Unset
    /\ bpPeriod' = <<get_baseline_period(bpReportStart, bpWeeksCount)>>
    /\ UNCHANGED <<bpReportStart, bpWeeksCount, notBpVars>>

BpNext == GetBaselinePeriod

SpecBaseline == BpInit /\ [][BpNext]_vars

\* C28: for every reportStart and weeksCount >= 1, get_baseline_period
\* returns a period that ends at 23:59:59 of the calendar day before
\* reportStart's day, starts at 00:00:00 of the day weeksCount x 7 calendar
\* days before reportStart's day, covers exactly weeksCount x 7 whole days,
\* and lies entirely before reportStart.
C28_BaselinePeriodBeforeReport ==
    bpPeriod # Unset =>
        LET period == bpPeriod[1]
        IN  /\ period.end = [day |-> bpReportStart.day - 1,
                             second |-> 23 * 3600 + 59 * 60 + 59,
                             microsecond |-> 0]
            /\ period.start = [day |-> bpReportStart.day - bpWeeksCount * 7,
                               second |-> 0, microsecond |-> 0]
            /\ period.end.day - period.start.day + 1 = bpWeeksCount * 7
            /\ DateBefore(period.start, period.end)
            /\ DateBefore(period.end, bpReportStart)

\* C28 witness: the period of four weeks before a report week that starts
\* at midnight, and so one second after the period's end.
C28_Witness ==
    /\ bpPeriod # Unset
    /\ bpWeeksCount = 4
    /\ bpReportStart = [day |-> 7, second |-> 0, microsecond |-> 0]
    /\ bpPeriod[1].end.day = 6
    /\ bpPeriod[1].start.day = -21


(***************************************************************************)
(* C29: the spike grouping as a partition of the flagged readings.         *)
(***************************************************************************)

EventIntervals(events) == [k \in 1..Len(events) |-> events[k].intervals]
EventExcessKwh(events) == [k \in 1..Len(events) |-> events[k].totalExcessKwh]
FlaggedExcessKwh == [i \in 1..Len(flagged) |-> flagged[i].excessKwh]

\* C29: group_consecutive_spikes partitions its input: for flagged readings
\* with non-decreasing timestamps every reading is folded into exactly one
\* returned event (the intervals of the events sum to the number of
\* readings, their totalExcessKwh to the sum of the readings' excessKwh),
\* the events are in chronological order, each has start <= end, and each
\* event's end is earlier than the next event's start by more than
\* 2 x intervalSeconds.
C29_SpikeGroupingPartitionsInput ==
    SpikesGrouped =>
        /\ \A i \in 1..Len(flagged) :
              Cardinality({k \in 1..Len(SpikeResult) :
                              Covers(SpikeResult[k], i)}) = 1
        /\ SumSeq(EventIntervals(SpikeResult)) = Len(flagged)
        /\ SumSeq(EventExcessKwh(SpikeResult)) = SumSeq(FlaggedExcessKwh)
        /\ \A k \in 1..Len(SpikeResult) :
              /\ SpikeResult[k].start <= SpikeResult[k].end
              /\ SpikeResult[k].intervals = Cardinality(Folded(SpikeResult[k]))
        /\ \A k \in 1..(Len(SpikeResult) - 1) :
              /\ SpikeResult[k].start < SpikeResult[k + 1].start
              /\ SpikeResult[k + 1].start - SpikeResult[k].end
                    > 2 * grpInterval

\* C29 witness: three flagged readings, two of them with the same
\* timestamp, were grouped into two events.
C29_Witness ==
    /\ SpikesGrouped
    /\ Len(flagged) = 3
    /\ \E i \in 1..2 : FlaggedGap(i) = 0
    /\ Len(SpikeResult) = 2


(***************************************************************************)
(* C30: the expected count left to its default.                            *)
(***************************************************************************)

\* channel i carries no expectedIntervals of the caller
ShDefaultsExpected(i) == ~ ("expectedIntervals" \in DOMAIN shChannelsData[i])

\* the completeness the analyser computes for channel i (sensor_health.py:66-68)
ShCompleteness(i) ==
    calculate_completeness(Len(shChannelsData[i].readings),
                           ExpectedIntervals(shChannelsData[i]))

\* C30: for a channel without expectedIntervals the expected count is the
\* actual reading count, completeness is 100% and no result of
\* analyze_sensor_health holds a low_completeness issue for the channel,
\* for every reading series including the empty one.
C30_DefaultExpectedIsComplete ==
    \A result \in ShResults :
        \A i \in 1..Len(shChannelsData) :
            ShDefaultsExpected(i) =>
                /\ ExpectedIntervals(shChannelsData[i])
                       = Len(shChannelsData[i].readings)
                /\ ShCompleteness(i).num = 100 * ShCompleteness(i).den
                /\ Len(LowCompletenessOf(result, i)) = 0

=========================================================================
